---- MODULE Spec2Model ----
(***************************************************************************)
(* TheTronpickMaster: the Orchestrator state machine (Orchestrator.js),    *)
(* the RoulettePlayer progression engine and error budgets                 *)
(* (RoulettePlayer.js), the manual-withdrawal threshold controller and the *)
(* appState.json checkpoint.                                               *)
(*                                                                         *)
(* Amounts of TRX are integers in units of 0.000001 TRX (the site shows    *)
(* six decimals); roulette stakes are the site's integer chip units.       *)
(* Timestamps are minutes.  JS null is NULL.                               *)
(* One tick of runStateMachine is one action, except the PLAYING_ROULETTE  *)
(* tick, which is split at the awaits of playOneCycle (pc).                *)
(***************************************************************************)
EXTENDS Integers, Sequences, FiniteSets, TLC

NULL == -1

\* ---------------------------------------------------------------- constants
MAX_VERIFICATION_ATTEMPTS == 3
MAX_ROULETTE_ERRORS == 5
FAUCET_INTERVAL_MS == 62
WITHDRAWAL_TRIGGER == 16638300
WITHDRAWAL_DETECTION_THRESHOLD == 10000000
MAX_LOGIN_ATTEMPTS == 3
MAX_HOURLY_CLAIM_ATTEMPTS == 3
MAX_TELEGRAM_RETRIES == 3
VERIFY_MAX_ATTEMPTS == 5
CORRECTION_CHIP == 100
LAST_LEVEL == 13
VERIFICATION_ERROR_LIMIT == 5
SPIN_ERROR_LIMIT == 3
STREAK_LEVEL == 3

\* variant: a ladder that grows by 100 units per level instead of doubling
BASE_PROGRESSION_linear == [i \in 0..LAST_LEVEL |-> 100 * (i + 1)]

BASE_PROGRESSION == [i \in 0..LAST_LEVEL |-> 100 * (2 ^ i)]

RED_NUMBERS == {1, 3, 5, 7, 9, 12, 14, 16, 18, 19, 21, 23, 25, 27, 30, 32, 34, 36}
BLACK_NUMBERS == {2, 4, 6, 8, 10, 11, 13, 15, 17, 20, 22, 24, 26, 28, 29, 31, 33, 35}

\* ------------------------------------------------------------------- bounds
\* roulette cycles one process may start, in the whole-machine specification
MaxCyclesMachine == 1
\* roulette cycles one process may start, in the engine specification
MaxCyclesEngine == 6
\* losing spins in a row the wheel deals in one cycle, in the whole-machine
\* specification (the engine specification walks the whole progression)
MaxLossesMachine == 2
\* process restarts (kill or crash followed by a new `node index.js`)
MaxRestarts == 1
\* the clock advances in steps of TimeStep minutes up to MaxTime
TimeStep == 62
MaxTime == 124

\* SIGINT signals the operator sends to one process
MaxSignals == 2

\* balances the site may show: 16.638300 TRX (the trigger), 6.638300 TRX
\* (10 TRX below it) and 6.638301 TRX (0.000001 TRX less than 10 TRX below it)
Balances == {6638300, 6638301, 16638300}
\* numbers the wheel may show in the model: zero, one red, one black; NULL = unreadable
SpinResults == {NULL, 0, 1, 2}

VARIABLES
    \* Orchestrator.js
    currentState,
    appState,
    withdrawalThresholdBalance,
    systemPausedForWithdrawal,
    consecutiveRouletteErrors,
    \* appState.json: NoFile or the record written by saveStateToFile
    stateFile,
    \* BrowserManager.js: TRUE iff `page` is not null
    page,
    \* RoulettePlayer.js module counters
    verificationErrorCount,
    spinErrorCount,
    prevWinLevel,
    pnl,
    cycleCount,
    \* playOneCycle locals
    level,
    cumulative,
    targetChoice,
    cycleResult,
    \* control position inside the loop of runStateMachine
    pc,
    \* environment
    balance,
    now,
    \* number of restarts of the process so far
    boot,
    \* cap on cycleCount chosen by the specification
    maxCycles,
    \* cap on the losing spins in a row chosen by the specification
    maxLosses,
    \* observations of the last call of a function
    currentBalance,
    signInEnd,
    hsr,
    lastHighWin,
    \* verify-email requests sent to the site since the verification loop was entered
    verifyRequests,
    \* what needsEmailVerification found in the tick that ended
    emailCheck,
    \* the Node process: the SIGINT handler of start(), the exit status, and
    \* whether the ERROR case of the loop has run
    process,
    \* playOneCycle: whether the getResult() of the round just evaluated gave
    \* a number ("number") or null ("null"); "none" once the walk has moved on
    getResultRead,
    \* calls of attemptHourlyFaucetClaim made by the tick that ended
    hourlyClaimAttempts,
    \* the case of the switch of runStateMachine that is running ("none" between ticks)
    caseLabel,
    \* message of the last exception caught at the loop boundary ("" when none)
    lastErrorMessage,
    \* state named by the "Uncaught error in state ..." line of the running tick
    \* ("none" when the tick logged no such line)
    uncaughtLog,
    \* the details object handed to notifySystemEvent(UNHANDLED_ERROR, ...) by the
    \* catch of the running tick (NoDetails when the catch sent no notification)
    details,
    \* the notification of the running tick: the outcomes of the calls of
    \* sendTelegramMessage it met, the value it returned and the calls it made
    telegram,
    \* the states printed by "--- Current State: ... ---" at the head of the loop,
    \* kept until PLAYING_ROULETTE or ERROR is entered (<<>> from then on)
    stateLog,
    \* how the deposit or spin step that ended the cycle failed: "false" (a
    \* helper returned false) or "throw" (a page operation threw); else "none"
    stepFault,
    \* when the hourly claim the machine is returning from failed three times
    \* (NULL: it succeeded, or roulette has been resumed since)
    claimFailedAt,
    \* the PLAYING_ROULETTE tick ended with the 5-minute pause for repeated errors
    coolDown,
    \* the bet amount verifyDeposit accepted for the spin that follows (NULL: none)
    tableAmount,
    \* what the page showed after the claim button of the hourly faucet was clicked
    \* in the tick that ended: "success", "error" or "nomessage"; "unread" when the
    \* claim ended before the result was read; "none" when no claim was attempted
    claimSuccessful,
    \* the call of claimBonusFaucet that is running: the locals initialSpinsAvailable,
    \* remainingSpins and totalClaimed, the passes made through its while loop and
    \* the value returned ("none" while it runs)
    bonusClaim

vars == <<currentState, appState, withdrawalThresholdBalance, systemPausedForWithdrawal,
          consecutiveRouletteErrors, stateFile, page, verificationErrorCount, spinErrorCount,
          prevWinLevel, pnl, cycleCount, level, cumulative, targetChoice, cycleResult, pc,
          balance, now, boot, maxCycles, maxLosses, currentBalance, signInEnd, hsr, lastHighWin, verifyRequests, emailCheck, process,
          getResultRead,
          hourlyClaimAttempts,
          caseLabel,
          lastErrorMessage,
          uncaughtLog,
          details,
          telegram,
          stateLog,
          stepFault,
          claimFailedAt,
          coolDown,
          tableAmount,
          claimSuccessful,
          bonusClaim>>

orchVars == <<appState, withdrawalThresholdBalance, systemPausedForWithdrawal,
              consecutiveRouletteErrors, stateFile>>
playerVars == <<verificationErrorCount, spinErrorCount, prevWinLevel, pnl, cycleCount>>
walkVars == <<level, cumulative, targetChoice, cycleResult>>
envVars == <<balance, now, boot, maxCycles, maxLosses>>
obsVars == <<currentBalance, signInEnd, hsr, lastHighWin, verifyRequests, emailCheck>>

\* the case label is dropped when the tick ends (break, end of the loop body)
CaseAfter == caseLabel' = (IF pc' \in {"sleep", "done", "exited"} THEN "none" ELSE caseLabel)

\* ---- TelegramNotifier.js ----

\* no notification was sent by the running tick
\* no UNHANDLED_ERROR notification
NoDetails == [state |-> "none", message |-> ""]

NoTelegram == [built |-> FALSE, first |-> 0, value |-> "none", calls |-> 0]

\* what one call of sendTelegramMessage can do
SendOutcomes == {"true", "false", "throw"}

\* the outcomes of the calls of one notification: failures of one kind until
\* call k, which succeeds (k = MAX_TELEGRAM_RETRIES + 1: no call succeeds)
SendSequences ==
    {[j \in 1..MAX_TELEGRAM_RETRIES |-> IF j < k THEN fail ELSE "true"] :
       k \in 1..(MAX_TELEGRAM_RETRIES + 1), fail \in SendOutcomes \ {"true"}}

\* the first call of sendTelegramMessage that would return true (0: none)
FirstSuccess(outcomes) ==
    IF \E k \in DOMAIN outcomes : outcomes[k] = "true"
    THEN CHOOSE k \in DOMAIN outcomes :
           /\ outcomes[k] = "true"
           /\ \A j \in 1..(k - 1) : outcomes[j] # "true"
    ELSE 0

\* variant: an exception of sendTelegramMessage is not caught
RECURSIVE sendWithRetry_noCatch(_, _)
sendWithRetry_noCatch(outcomes, retryCount) ==
    IF outcomes[retryCount + 1] = "true"
    THEN [value |-> "true", calls |-> retryCount + 1]
    ELSE IF outcomes[retryCount + 1] = "false"
         THEN IF retryCount < MAX_TELEGRAM_RETRIES - 1
              THEN sendWithRetry_noCatch(outcomes, retryCount + 1)
              ELSE [value |-> "false", calls |-> retryCount + 1]
         ELSE [value |-> "throw", calls |-> retryCount + 1]

\* sendWithRetry(channelType, message, useHTML, retryCount): outcomes[k] is
\* what the k-th call of sendTelegramMessage does; both a false return and an
\* exception lead to the retry while retryCount < MAX_TELEGRAM_RETRIES - 1
RECURSIVE sendWithRetry(_, _)
sendWithRetry(outcomes, retryCount) ==
    IF outcomes[retryCount + 1] = "true"
    THEN [value |-> "true", calls |-> retryCount + 1]
    ELSE IF outcomes[retryCount + 1] = "false"
         THEN IF retryCount < MAX_TELEGRAM_RETRIES - 1
              THEN sendWithRetry(outcomes, retryCount + 1)
              ELSE [value |-> "false", calls |-> retryCount + 1]
         ELSE IF retryCount < MAX_TELEGRAM_RETRIES - 1
              THEN sendWithRetry(outcomes, retryCount + 1)
              ELSE [value |-> "false", calls |-> retryCount + 1]

\* notifySystemEvent / notifyMoneyEvent: the message is built and sent
\* inside one try; built = FALSE is an exception while building it
notifySystemEvent(built, outcomes) ==
    IF built THEN sendWithRetry(outcomes, 0) ELSE [value |-> "false", calls |-> 0]

notifyMoneyEvent(built, outcomes) ==
    IF built THEN sendWithRetry(outcomes, 0) ELSE [value |-> "false", calls |-> 0]

\* what the tick keeps of a notification: whether the message was built, the
\* first call that would succeed, the value returned and the calls made
Sent(built, outcomes, r) ==
    [built |-> built, first |-> FirstSuccess(outcomes), value |-> r.value, calls |-> r.calls]

\* if (isTelegramConfigured()) await notifySystemEvent(...): not configured,
\* or the message cannot be built, or it is sent with some outcomes
NotifySystem ==
    \/ telegram' = NoTelegram
    \/ telegram' = Sent(FALSE, <<>>, notifySystemEvent(FALSE, <<>>))
    \/ \E outcomes \in SendSequences :
         telegram' = Sent(TRUE, outcomes, notifySystemEvent(TRUE, outcomes))

\* if (isTelegramConfigured()) await notifyMoneyEvent(...)
NotifyMoney ==
    \/ telegram' = NoTelegram
    \/ telegram' = Sent(FALSE, <<>>, notifyMoneyEvent(FALSE, <<>>))
    \/ \E outcomes \in SendSequences :
         telegram' = Sent(TRUE, outcomes, notifyMoneyEvent(TRUE, outcomes))

NoFile == [exists |-> FALSE]
NoResult == [outcome |-> "none", level |-> NULL]
NoProcess == [handler |-> "none", signals |-> 0, exitCode |-> NULL, error |-> FALSE]
\* claimBonusFaucet before its first statement
NoBonusClaim ==
    [initialSpinsAvailable |-> 0, remainingSpins |-> 0, totalClaimed |-> 0,
     iterations |-> 0, returned |-> "none"]

NoHsr == [branch |-> "none", seedAttempted |-> FALSE, seedChanged |-> FALSE, reload |-> FALSE,
          returned |-> "none"]

\* ------------------------------------------------------- RoulettePlayer.js
isWin(result, target) ==
    IF result = NULL \/ result = 0 THEN FALSE
    ELSE IF target = "red" THEN result \in RED_NUMBERS
    ELSE IF target = "black" THEN result \in BLACK_NUMBERS
    ELSE FALSE

\* variant: a win is credited with its payout, the stakes already placed forgotten
calculateCycleProfit_gross(winLevel, cum) ==
    IF winLevel # NULL THEN 2 * BASE_PROGRESSION[winLevel] ELSE 0 - cum

calculateCycleProfit(winLevel, cum) ==
    IF winLevel # NULL THEN (2 * BASE_PROGRESSION[winLevel]) - cum ELSE 0 - cum

\* variant: the verification budget trips one failure late
VerificationBudgetTripped_late(v) == v > VERIFICATION_ERROR_LIMIT

\* handleSeedAndRefresh, case 1: the deposit-verification budget is exhausted
VerificationBudgetTripped(v) == v >= VERIFICATION_ERROR_LIMIT

\* handleSeedAndRefresh, case 2: the spin budget is exhausted
SpinBudgetTripped(s) == s >= SPIN_ERROR_LIMIT

\* variant: prevWinLevel is committed before the test, so the test compares the
\* win with itself
StreakBroken_committed(cr, previousLevelBeforeCheck) ==
    /\ cr.outcome = "win"
    /\ cr.level >= STREAK_LEVEL
    /\ (cr.level = NULL \/ cr.level < STREAK_LEVEL)

\* handleSeedAndRefresh, case 3: a win at level >= 3 that breaks a streak
StreakBroken(cr, previousLevelBeforeCheck) ==
    /\ cr.outcome = "win"
    /\ cr.level >= STREAK_LEVEL
    /\ (previousLevelBeforeCheck = NULL \/ previousLevelBeforeCheck < STREAK_LEVEL)

\* variant: the corrective sequence forgets to clear prevWinLevel
Corrective_keepsStreak(branch, v, s, p, navOK, seedOK, vReset, sReset) ==
    IF navOK
    THEN [ver |-> IF vReset THEN 0 ELSE v, spin |-> IF sReset THEN 0 ELSE s, prev |-> p,
          returned |-> "true", branch |-> branch, seedAttempted |-> TRUE,
          seedChanged |-> seedOK, reload |-> TRUE]
    ELSE [ver |-> v, spin |-> s, prev |-> p,
          returned |-> "throw", branch |-> branch, seedAttempted |-> TRUE,
          seedChanged |-> seedOK, reload |-> TRUE]

\* The corrective sequence shared by the three cases: changeClientSeed() (its
\* result is only logged), then navigateTo(ROULETTE_URL, true), which throws
\* when the reload fails (navOK = FALSE) and then skips the resets below it.
Corrective(branch, v, s, p, navOK, seedOK, vReset, sReset) ==
    IF navOK
    THEN [ver |-> IF vReset THEN 0 ELSE v, spin |-> IF sReset THEN 0 ELSE s, prev |-> NULL,
          returned |-> "true", branch |-> branch, seedAttempted |-> TRUE,
          seedChanged |-> seedOK, reload |-> TRUE]
    ELSE [ver |-> v, spin |-> s, prev |-> p,
          returned |-> "throw", branch |-> branch, seedAttempted |-> TRUE,
          seedChanged |-> seedOK, reload |-> TRUE]

\* variant: a seed change that failed calls the correction off
handleSeedAndRefresh_needsSeed(cr, v, s, p, navOK, seedOK) ==
    IF VerificationBudgetTripped(v) /\ seedOK
    THEN Corrective("verification", v, s, p, navOK, seedOK, TRUE, FALSE)
    ELSE IF SpinBudgetTripped(s) /\ seedOK
    THEN Corrective("spin", v, s, p, navOK, seedOK, FALSE, TRUE)
    ELSE IF StreakBroken(cr, p) /\ seedOK
    THEN Corrective("streak", v, s, p, navOK, seedOK, FALSE, FALSE)
    ELSE [ver |-> v, spin |-> s,
          prev |-> IF cr.outcome = "win" THEN cr.level
                   ELSE IF cr.outcome = "loss" THEN NULL ELSE p,
          returned |-> "false", branch |-> "none", seedAttempted |-> FALSE,
          seedChanged |-> FALSE, reload |-> FALSE]

\* handleSeedAndRefresh(cycleResult) on counters v, s and prevWinLevel p;
\* seedOK is what changeClientSeed() returns, navOK whether the forced reload
\* goes through
handleSeedAndRefresh(cr, v, s, p, navOK, seedOK) ==
    IF VerificationBudgetTripped(v)
    THEN Corrective("verification", v, s, p, navOK, seedOK, TRUE, FALSE)
    ELSE IF SpinBudgetTripped(s)
    THEN Corrective("spin", v, s, p, navOK, seedOK, FALSE, TRUE)
    ELSE IF StreakBroken(cr, p)
    THEN Corrective("streak", v, s, p, navOK, seedOK, FALSE, FALSE)
    ELSE [ver |-> v, spin |-> s,
          prev |-> IF cr.outcome = "win" THEN cr.level
                   ELSE IF cr.outcome = "loss" THEN NULL ELSE p,
          returned |-> "false", branch |-> "none", seedAttempted |-> FALSE,
          seedChanged |-> FALSE, reload |-> FALSE]

\* --------------------------------------------------------- Orchestrator.js
\* values checkBalance() may return: the balance shown, or 0 on any failure
checkBalance == IF page THEN {balance, 0} ELSE {0}

\* the gate with a strict comparison
isTimeForFaucetClaim_strict ==
    \/ appState.lastFaucetClaimTime = NULL
    \/ now - appState.lastFaucetClaimTime > FAUCET_INTERVAL_MS

isTimeForFaucetClaim ==
    \/ appState.lastFaucetClaimTime = NULL
    \/ now - appState.lastFaucetClaimTime >= FAUCET_INTERVAL_MS

isReadyForWithdrawal(bal) == bal >= WITHDRAWAL_TRIGGER

\* variant: a drop of exactly 10 TRX is not taken for a withdrawal
WithdrawalDetected_strict(thresholdBalance, current) ==
    thresholdBalance - current > WITHDRAWAL_DETECTION_THRESHOLD

\* detectManualWithdrawal's test on the balance it has read
WithdrawalDetected(thresholdBalance, current) ==
    thresholdBalance - current >= WITHDRAWAL_DETECTION_THRESHOLD

\* JS truthiness of a timestamp
Truthy(t) == t # NULL /\ t # 0

\* JSON values of a timestamp field of appState.json: null, or the string
\* Date.toISOString() gives for the millisecond count t
JsonNull == [type |-> "null"]
toISOString(t) == [type |-> "string", date |-> t]
\* new Date(string).getTime()
getTime(j) == j.date

\* saveStateToFile with the timestamp dropped from the record
saveStateToFile_noTimestamp(app, wtb, paused) ==
    [exists |-> TRUE,
     isInitialSetupComplete |-> app.isInitialSetupComplete,
     lastFaucetClaimTime |-> JsonNull,
     verificationAttempts |-> app.verificationAttempts,
     rouletteCycles |-> app.rouletteCycles,
     totalPnL |-> app.totalPnL,
     withdrawalThresholdBalance |-> wtb,
     systemPausedForWithdrawal |-> paused]

\* the record saveStateToFile writes
saveStateToFile(app, wtb, paused) ==
    [exists |-> TRUE,
     isInitialSetupComplete |-> app.isInitialSetupComplete,
     lastFaucetClaimTime |-> IF Truthy(app.lastFaucetClaimTime)
                             THEN toISOString(app.lastFaucetClaimTime) ELSE JsonNull,
     verificationAttempts |-> app.verificationAttempts,
     rouletteCycles |-> app.rouletteCycles,
     totalPnL |-> app.totalPnL,
     withdrawalThresholdBalance |-> wtb,
     systemPausedForWithdrawal |-> paused]

\* loadStateFromFile: appState is the parsed file, with a timestamp string
\* turned back into milliseconds; without a file the module state stays
loadStateFromFile(file, app, wtb, paused) ==
    IF file.exists
    THEN [appState |-> [isInitialSetupComplete |-> file.isInitialSetupComplete,
                        lastFaucetClaimTime |-> IF file.lastFaucetClaimTime # JsonNull
                                                THEN getTime(file.lastFaucetClaimTime)
                                                ELSE NULL,
                        verificationAttempts |-> file.verificationAttempts,
                        rouletteCycles |-> file.rouletteCycles,
                        totalPnL |-> file.totalPnL],
          withdrawalThresholdBalance |-> file.withdrawalThresholdBalance,
          systemPausedForWithdrawal |-> file.systemPausedForWithdrawal]
    ELSE [appState |-> app, withdrawalThresholdBalance |-> wtb,
          systemPausedForWithdrawal |-> paused]

DefaultAppState ==
    [isInitialSetupComplete |-> FALSE, lastFaucetClaimTime |-> NULL,
     verificationAttempts |-> 0, rouletteCycles |-> 0, totalPnL |-> 0]

\* variant: the tick does not call resetState() after the failure
FinishRouletteTick_noReset(success, cons, v, s, p) ==
    /\ consecutiveRouletteErrors' = (IF success THEN cons ELSE 0)
    /\ verificationErrorCount' = v
    /\ spinErrorCount' = s
    /\ prevWinLevel' = p
    /\ currentState' = "PLAYING_ROULETTE"
    /\ pc' = "sleep"
    /\ coolDown' = ~success

\* the end of a PLAYING_ROULETTE tick, after executeRouletteCycle returned
\* {success}: on failure resetState() and consecutiveRouletteErrors = 0
FinishRouletteTick(success, cons, v, s, p) ==
    /\ consecutiveRouletteErrors' = (IF success THEN cons ELSE 0)
    /\ verificationErrorCount' = (IF success THEN v ELSE 0)
    /\ spinErrorCount' = (IF success THEN s ELSE 0)
    /\ prevWinLevel' = (IF success THEN p ELSE NULL)
    /\ currentState' = "PLAYING_ROULETTE"
    /\ pc' = "sleep"
    /\ coolDown' = ~success

\* PLAYING_ROULETTE tick up to the call of playOneCycle
PlayingRoulette ==
    /\ pc = "tick"
    /\ caseLabel = "PLAYING_ROULETTE"
    /\ UNCHANGED process
    /\ UNCHANGED getResultRead
    /\ UNCHANGED hourlyClaimAttempts
    /\ UNCHANGED lastErrorMessage
    /\ UNCHANGED uncaughtLog
    /\ UNCHANGED details
    /\ UNCHANGED telegram
    /\ UNCHANGED stateLog
    /\ UNCHANGED stepFault
    /\ UNCHANGED tableAmount
    /\ IF isTimeForFaucetClaim
       THEN /\ currentState' = "PAUSED_FOR_FAUCET"
            /\ pc' = "sleep"
            /\ UNCHANGED <<orchVars, page, playerVars, walkVars, envVars, obsVars>>
            /\ UNCHANGED coolDown
       ELSE \E r1 \in checkBalance :
              IF isReadyForWithdrawal(r1)
              THEN \E r2 \in checkBalance :
                     /\ withdrawalThresholdBalance' = r2
                     /\ systemPausedForWithdrawal' = TRUE
                     /\ currentState' = "WITHDRAWAL_THRESHOLD_REACHED"
                     /\ pc' = "sleep"
                     /\ UNCHANGED <<appState, consecutiveRouletteErrors, stateFile, page,
                                    playerVars, walkVars, envVars, obsVars>>
                     /\ UNCHANGED coolDown
              ELSE /\ cycleCount < maxCycles
                   /\ \E navOK \in BOOLEAN :
                        IF page /\ navOK
                        THEN /\ pc' = "play"
                             /\ hsr' = NoHsr
                             /\ UNCHANGED <<currentState, orchVars, page, playerVars, walkVars,
                                            envVars, currentBalance, signInEnd, lastHighWin,
                                            verifyRequests, emailCheck>>
                             /\ UNCHANGED coolDown
                        ELSE /\ FinishRouletteTick(consecutiveRouletteErrors + 1 < MAX_ROULETTE_ERRORS,
                                                   consecutiveRouletteErrors + 1,
                                                   verificationErrorCount, spinErrorCount, prevWinLevel)
                             /\ hsr' = NoHsr
                             /\ UNCHANGED <<appState, withdrawalThresholdBalance,
                                            systemPausedForWithdrawal, stateFile, page, pnl,
                                            cycleCount, walkVars, envVars, currentBalance,
                                            signInEnd, lastHighWin, verifyRequests, emailCheck>>
    /\ CaseAfter
    /\ claimFailedAt' = NULL
    /\ UNCHANGED claimSuccessful
    /\ UNCHANGED bonusClaim

\* playOneCycle: entry, page check, choice of the side
PlayOneCycleBegin ==
    /\ pc = "play"
    /\ UNCHANGED <<currentState, orchVars, page, verificationErrorCount, spinErrorCount,
                   prevWinLevel, pnl, envVars, obsVars>>
    /\ UNCHANGED process
    /\ UNCHANGED getResultRead
    /\ UNCHANGED hourlyClaimAttempts
    /\ UNCHANGED lastErrorMessage
    /\ UNCHANGED uncaughtLog
    /\ UNCHANGED details
    /\ UNCHANGED telegram
    /\ UNCHANGED stateLog
    /\ UNCHANGED claimFailedAt
    /\ UNCHANGED coolDown
    /\ cycleCount' = cycleCount + 1
    /\ IF ~page
       THEN /\ cycleResult' = [outcome |-> "error", level |-> NULL]
            /\ pc' = "hsr"
            /\ UNCHANGED <<level, cumulative, targetChoice>>
       ELSE /\ \E t \in {"red", "black"} : targetChoice' = t
            /\ level' = 0
            /\ cumulative' = 0
            /\ cycleResult' = NoResult
            /\ pc' = "deposit"
    /\ CaseAfter
    /\ stepFault' = "none"
    /\ tableAmount' = NULL
    /\ UNCHANGED claimSuccessful
    /\ UNCHANGED bonusClaim

\* what a page operation of a step can do: succeed, fail (element missing,
\* helper returns false), or throw (timeout, closed page)
PageOps == {"ok", "false", "throw"}

\* what getBetAmount can read while a deposit of desired is verified: 0 (also
\* its answer to an unreadable input), the amount, or one chip too many
BetReads(desired) == {0, desired, desired + CORRECTION_CHIP}

\* the sequences of reads: short of the amount until read k, then final; the
\* amount is met at the first read, at the last one, or at none
ReadSequences(desired) ==
    {[j \in 1..VERIFY_MAX_ATTEMPTS |-> IF j < k THEN 0 ELSE final] :
       k \in {1, VERIFY_MAX_ATTEMPTS, VERIFY_MAX_ATTEMPTS + 1}, final \in BetReads(desired) \ {0}}

\* verifyDeposit(desired, targetSelector, level, maxAttempts = 5): returns the
\* amount read when it equals desired and also when it is greater; a smaller
\* amount is corrected and read again, -1 after the last attempt
RECURSIVE verifyDeposit(_, _, _)
verifyDeposit(desired, reads, attempts) ==
    IF attempts >= VERIFY_MAX_ATTEMPTS THEN NULL
    ELSE LET current == reads[attempts + 1]
         IN IF current = desired THEN current
            ELSE IF current > desired THEN current
            ELSE IF attempts + 1 >= VERIFY_MAX_ATTEMPTS THEN NULL
            ELSE verifyDeposit(desired, reads, attempts + 1)

\* depositForLevel0 / depositForLevel1 / depositForLevelGeneric: clearBet,
\* activateBoard, selectChip and clickTarget catch what their page operations
\* throw and return false, and the deposit returns -1; otherwise it returns
\* -1 when verifyDeposit does, and the stake of the level when it does not
depositForLevel(op, desired, reads) ==
    IF op # "ok" THEN NULL
    ELSE IF verifyDeposit(desired, reads, 0) = NULL THEN NULL
    ELSE desired

\* variant: spin() lets the exception of the page operation through
spin_noCatch(op) ==
    IF op = "ok" THEN "true" ELSE IF op = "false" THEN "false" ELSE "throw"

\* spin(): without a page it returns false; waitForSelector and evaluate are
\* inside its try, whose catch returns false
spin(op) ==
    IF op = "ok" THEN "true" ELSE "false"

\* the catch of playOneCycle: { outcome: 'error', message: 'Unexpected error' },
\* no counter is touched
PlayOneCycleCatch ==
    /\ cycleResult' = [outcome |-> "error", level |-> NULL]
    /\ pc' = "hsr"
    /\ level' = 0 /\ cumulative' = 0 /\ targetChoice' = "none"

\* playOneCycle: the deposit of the level
Deposit ==
    /\ pc = "deposit"
    /\ UNCHANGED <<currentState, orchVars, page, spinErrorCount, prevWinLevel, pnl, cycleCount,
                   envVars, obsVars>>
    /\ UNCHANGED process
    /\ UNCHANGED hourlyClaimAttempts
    /\ UNCHANGED lastErrorMessage
    /\ UNCHANGED uncaughtLog
    /\ UNCHANGED details
    /\ UNCHANGED telegram
    /\ UNCHANGED stateLog
    /\ UNCHANGED claimFailedAt
    /\ UNCHANGED coolDown
    /\ getResultRead' = "none"
    /\ \E op \in PageOps :
       \E reads \in IF op = "ok" THEN ReadSequences(BASE_PROGRESSION[level])
                    ELSE {[j \in 1..VERIFY_MAX_ATTEMPTS |-> 0]} :
         LET betAmountLvl == depositForLevel(op, BASE_PROGRESSION[level], reads)
         IN /\ stepFault' = (IF op # "ok" THEN op ELSE IF betAmountLvl = NULL THEN "false"
                             ELSE "none")
            /\ IF betAmountLvl # NULL
               THEN /\ tableAmount' = verifyDeposit(BASE_PROGRESSION[level], reads, 0)
                    /\ cumulative' = cumulative + BASE_PROGRESSION[level]
                    /\ pc' = "spin"
                    /\ UNCHANGED <<verificationErrorCount, level, targetChoice, cycleResult>>
               ELSE /\ tableAmount' = NULL
                    /\ verificationErrorCount' = verificationErrorCount + 1
                    /\ cycleResult' = [outcome |-> "error", level |-> NULL]
                    /\ pc' = "hsr"
                    /\ level' = 0 /\ cumulative' = 0 /\ targetChoice' = "none"
    /\ CaseAfter
    /\ UNCHANGED claimSuccessful
    /\ UNCHANGED bonusClaim

\* playOneCycle: spin()
Spin ==
    /\ pc = "spin"
    /\ UNCHANGED <<currentState, orchVars, page, verificationErrorCount, prevWinLevel, pnl,
                   cycleCount, envVars, obsVars>>
    /\ UNCHANGED process
    /\ UNCHANGED getResultRead
    /\ UNCHANGED hourlyClaimAttempts
    /\ UNCHANGED lastErrorMessage
    /\ UNCHANGED uncaughtLog
    /\ UNCHANGED details
    /\ UNCHANGED telegram
    /\ UNCHANGED stateLog
    /\ UNCHANGED claimFailedAt
    /\ UNCHANGED coolDown
    /\ tableAmount' = NULL
    /\ \E op \in PageOps :
         LET spinSuccess == spin(op)
         IN /\ stepFault' = (IF op = "ok" THEN "none" ELSE op)
            /\ IF spinSuccess = "true"
               THEN /\ pc' = "result"
                    /\ UNCHANGED <<spinErrorCount, walkVars>>
               ELSE IF spinSuccess = "false"
               THEN /\ spinErrorCount' = spinErrorCount + 1
                    /\ cycleResult' = [outcome |-> "error", level |-> NULL]
                    /\ pc' = "hsr"
                    /\ level' = 0 /\ cumulative' = 0 /\ targetChoice' = "none"
               ELSE /\ PlayOneCycleCatch
                    /\ UNCHANGED spinErrorCount
    /\ CaseAfter
    /\ UNCHANGED claimSuccessful
    /\ UNCHANGED bonusClaim

\* variant: a lost round forgets the stakes placed so far
Result_resetCumulative ==
    /\ pc = "result"
    /\ UNCHANGED <<currentState, orchVars, page, prevWinLevel, cycleCount, envVars, obsVars>>
    /\ UNCHANGED process
    /\ UNCHANGED hourlyClaimAttempts
    /\ UNCHANGED lastErrorMessage
    /\ UNCHANGED uncaughtLog
    /\ UNCHANGED details
    /\ UNCHANGED telegram
    /\ UNCHANGED stateLog
    /\ UNCHANGED claimFailedAt
    /\ UNCHANGED coolDown
    /\ \E result \in SpinResults :
         /\ isWin(result, targetChoice) \/ level < maxLosses
         /\ getResultRead' = (IF result = NULL THEN "null" ELSE "number")
         /\ IF isWin(result, targetChoice)
            THEN /\ verificationErrorCount' = 0
                 /\ spinErrorCount' = 0
                 /\ pnl' = pnl + calculateCycleProfit(level, cumulative)
                 /\ cycleResult' = [outcome |-> "win", level |-> level]
                 /\ pc' = "hsr"
                 /\ level' = 0 /\ cumulative' = 0 /\ targetChoice' = "none"
            ELSE IF level < LAST_LEVEL
            THEN /\ level' = level + 1
                 /\ pc' = "deposit"
                 /\ cumulative' = 0
                 /\ UNCHANGED <<verificationErrorCount, spinErrorCount, pnl,
                                targetChoice, cycleResult>>
            ELSE /\ verificationErrorCount' = 0
                 /\ spinErrorCount' = 0
                 /\ pnl' = pnl + calculateCycleProfit(NULL, cumulative)
                 /\ cycleResult' = [outcome |-> "loss", level |-> NULL]
                 /\ pc' = "hsr"
                 /\ level' = 0 /\ cumulative' = 0 /\ targetChoice' = "none"
    /\ CaseAfter
    /\ stepFault' = "none"
    /\ tableAmount' = NULL
    /\ UNCHANGED claimSuccessful
    /\ UNCHANGED bonusClaim

\* playOneCycle: getResult(), isWin(), and the end of the walk
Result ==
    /\ pc = "result"
    /\ UNCHANGED <<currentState, orchVars, page, prevWinLevel, cycleCount, envVars, obsVars>>
    /\ UNCHANGED process
    /\ UNCHANGED hourlyClaimAttempts
    /\ UNCHANGED lastErrorMessage
    /\ UNCHANGED uncaughtLog
    /\ UNCHANGED details
    /\ UNCHANGED telegram
    /\ UNCHANGED stateLog
    /\ UNCHANGED claimFailedAt
    /\ UNCHANGED coolDown
    /\ \E result \in SpinResults :
         /\ isWin(result, targetChoice) \/ level < maxLosses
         /\ getResultRead' = (IF result = NULL THEN "null" ELSE "number")
         /\ IF isWin(result, targetChoice)
            THEN /\ verificationErrorCount' = 0
                 /\ spinErrorCount' = 0
                 /\ pnl' = pnl + calculateCycleProfit(level, cumulative)
                 /\ cycleResult' = [outcome |-> "win", level |-> level]
                 /\ pc' = "hsr"
                 /\ level' = 0 /\ cumulative' = 0 /\ targetChoice' = "none"
            ELSE IF level < LAST_LEVEL
            THEN /\ level' = level + 1
                 /\ pc' = "deposit"
                 /\ UNCHANGED <<verificationErrorCount, spinErrorCount, pnl, cumulative,
                                targetChoice, cycleResult>>
            ELSE /\ verificationErrorCount' = 0
                 /\ spinErrorCount' = 0
                 /\ pnl' = pnl + calculateCycleProfit(NULL, cumulative)
                 /\ cycleResult' = [outcome |-> "loss", level |-> NULL]
                 /\ pc' = "hsr"
                 /\ level' = 0 /\ cumulative' = 0 /\ targetChoice' = "none"
    /\ CaseAfter
    /\ stepFault' = "none"
    /\ tableAmount' = NULL
    /\ UNCHANGED claimSuccessful
    /\ UNCHANGED bonusClaim

\* executeRouletteCycle after playOneCycle returned, and the rest of the tick
AfterCycle ==
    /\ pc = "hsr"
    /\ UNCHANGED <<withdrawalThresholdBalance, systemPausedForWithdrawal, page, pnl, cycleCount,
                   level, cumulative, targetChoice, envVars, currentBalance, signInEnd,
                   verifyRequests, emailCheck>>
    /\ UNCHANGED process
    /\ UNCHANGED hourlyClaimAttempts
    /\ UNCHANGED lastErrorMessage
    /\ UNCHANGED uncaughtLog
    /\ UNCHANGED details
    /\ UNCHANGED telegram
    /\ UNCHANGED stateLog
    /\ UNCHANGED claimFailedAt
    /\ \E navOK \in BOOLEAN, seedOK \in BOOLEAN :
         LET app1 == [appState EXCEPT !.rouletteCycles = @ + 1, !.totalPnL = pnl]
             h == handleSeedAndRefresh(cycleResult, verificationErrorCount, spinErrorCount,
                                       prevWinLevel, navOK, seedOK)
             failed == h.returned = "throw" \/ (h.returned = "false" /\ cycleResult.outcome = "error")
             cons1 == IF failed THEN consecutiveRouletteErrors + 1 ELSE 0
             success == ~failed \/ cons1 < MAX_ROULETTE_ERRORS
         IN /\ appState' = app1
            /\ stateFile' = saveStateToFile(app1, withdrawalThresholdBalance, systemPausedForWithdrawal)
            /\ FinishRouletteTick(success, cons1, h.ver, h.spin, h.prev)
            /\ hsr' = [branch |-> h.branch, seedAttempted |-> h.seedAttempted,
                       seedChanged |-> h.seedChanged,
                       reload |-> h.reload, returned |-> h.returned]
    /\ lastHighWin' = (cycleResult.outcome = "win" /\ cycleResult.level >= STREAK_LEVEL)
    /\ cycleResult' = NoResult
    /\ getResultRead' = "none"
    /\ CaseAfter
    /\ stepFault' = "none"
    /\ tableAmount' = NULL
    /\ UNCHANGED claimSuccessful
    /\ UNCHANGED bonusClaim

\* the delay(250) at the bottom of the loop of runStateMachine; what the tick
\* that ended read and returned (currentBalance, signInEnd, hsr, emailCheck) is forgotten
Sleep ==
    /\ pc = "sleep"
    /\ currentState # "STOPPED"
    /\ UNCHANGED <<currentState, orchVars, page, playerVars, walkVars, envVars, lastHighWin,
                   verifyRequests>>
    /\ UNCHANGED getResultRead
    /\ UNCHANGED lastErrorMessage
    /\ UNCHANGED stepFault
    /\ UNCHANGED claimFailedAt
    /\ UNCHANGED tableAmount
    /\ pc' = "tick"
    /\ currentBalance' = NULL
    /\ signInEnd' = "none"
    /\ hsr' = NoHsr
    /\ emailCheck' = "none"
    /\ process' = (IF process.handler = "wait" THEN [process EXCEPT !.handler = "grace"] ELSE process)
    /\ hourlyClaimAttempts' = 0
    /\ caseLabel' = currentState
    /\ uncaughtLog' = "none"
    /\ details' = NoDetails
    /\ telegram' = NoTelegram
    /\ stateLog' = (IF stateLog = <<>> \/ currentState \in {"PLAYING_ROULETTE", "ERROR"} THEN <<>>
                     ELSE Append(stateLog, currentState))
    /\ coolDown' = FALSE
    /\ claimSuccessful' = "none"
    /\ UNCHANGED bonusClaim

\* ------------------------------------------------------- AuthHandler.js
\* signIn from attempt i: outcomes[i] is how attempt i ends: "redirect" (the
\* faucet page is reached), "rejected" (no redirect / error message shown:
\* logical failure) or "error" (an exception inside the attempt).
RECURSIVE signInFrom(_, _)
signInFrom(i, outcomes) ==
    IF outcomes[i] = "redirect" THEN [value |-> "true", end |-> "success"]
    ELSE IF outcomes[i] = "rejected"
    THEN IF i < MAX_LOGIN_ATTEMPTS THEN signInFrom(i + 1, outcomes)
         ELSE [value |-> "false", end |-> "logical"]
    ELSE IF i < MAX_LOGIN_ATTEMPTS THEN signInFrom(i + 1, outcomes)
         ELSE [value |-> "throw", end |-> "technical"]

\* signIn(): false without any attempt when the page is not available
signIn(pageAvailable, outcomes) ==
    IF ~pageAvailable THEN [value |-> "false", end |-> "page_unavailable"]
    ELSE signInFrom(1, outcomes)

AttemptOutcomes == {"redirect", "rejected", "error"}

\* ------------------------------------------------- runStateMachine ticks
\* a tick that only changes currentState
Goto(s) ==
    /\ currentState' = s
    /\ pc' = "sleep"

TickInitializing ==
    /\ pc = "tick" /\ caseLabel = "INITIALIZING"
    /\ UNCHANGED <<orchVars, page, playerVars, walkVars, envVars, obsVars>>
    /\ UNCHANGED process
    /\ UNCHANGED getResultRead
    /\ UNCHANGED hourlyClaimAttempts
    /\ UNCHANGED lastErrorMessage
    /\ UNCHANGED uncaughtLog
    /\ UNCHANGED details
    /\ UNCHANGED telegram
    /\ UNCHANGED stateLog
    /\ UNCHANGED stepFault
    /\ UNCHANGED claimFailedAt
    /\ UNCHANGED coolDown
    /\ UNCHANGED tableAmount
    /\ Goto("NEEDS_CONFIG")
    /\ CaseAfter
    /\ UNCHANGED claimSuccessful
    /\ UNCHANGED bonusClaim

\* getConfigFromUser() may throw: caught at the loop boundary
\* the catch of the loop: logs "Uncaught error in state <currentState>",
\* sets ERROR and records the message of the exception
Uncaught(message) ==
    /\ uncaughtLog' = currentState
    /\ lastErrorMessage' = message
    /\ Goto("ERROR")
    /\ NotifySystem
    /\ details' = (IF telegram' = NoTelegram THEN NoDetails
                   ELSE [state |-> currentState', message |-> message])

\* a case that ends by break: the catch of the loop is not entered
Break(s) ==
    /\ UNCHANGED <<lastErrorMessage, uncaughtLog, details>>
    /\ UNCHANGED telegram
    /\ Goto(s)

\* NEEDS_CONFIG: getConfigFromUser() and getConfig() are outside any try
TickNeedsConfig ==
    /\ pc = "tick" /\ caseLabel = "NEEDS_CONFIG"
    /\ UNCHANGED <<orchVars, page, playerVars, walkVars, envVars, obsVars>>
    /\ UNCHANGED process
    /\ UNCHANGED getResultRead
    /\ UNCHANGED hourlyClaimAttempts
    /\ UNCHANGED stateLog
    /\ UNCHANGED stepFault
    /\ UNCHANGED claimFailedAt
    /\ UNCHANGED coolDown
    /\ UNCHANGED tableAmount
    /\ \E ok \in BOOLEAN : IF ok THEN /\ Goto("LOADING_STATE")
                                  /\ UNCHANGED <<lastErrorMessage, uncaughtLog, details>>
                                  /\ NotifySystem
                             ELSE Uncaught("config")
    /\ CaseAfter
    /\ UNCHANGED claimSuccessful
    /\ UNCHANGED bonusClaim

\* loadStateFromFile
TickLoadingState ==
    /\ pc = "tick" /\ caseLabel = "LOADING_STATE"
    /\ UNCHANGED <<consecutiveRouletteErrors, stateFile, page, playerVars, walkVars, envVars,
                   obsVars>>
    /\ UNCHANGED process
    /\ UNCHANGED getResultRead
    /\ UNCHANGED hourlyClaimAttempts
    /\ UNCHANGED lastErrorMessage
    /\ UNCHANGED uncaughtLog
    /\ UNCHANGED details
    /\ UNCHANGED telegram
    /\ UNCHANGED stateLog
    /\ UNCHANGED stepFault
    /\ UNCHANGED claimFailedAt
    /\ UNCHANGED coolDown
    /\ UNCHANGED tableAmount
    /\ LET loaded == loadStateFromFile(stateFile, appState, withdrawalThresholdBalance,
                                       systemPausedForWithdrawal)
       IN /\ appState' = loaded.appState
          /\ withdrawalThresholdBalance' = loaded.withdrawalThresholdBalance
          /\ systemPausedForWithdrawal' = loaded.systemPausedForWithdrawal
    /\ Goto("LAUNCHING_BROWSER")
    /\ CaseAfter
    /\ UNCHANGED claimSuccessful
    /\ UNCHANGED bonusClaim

\* launchBrowser() throws when the browser cannot be started
TickLaunchingBrowser ==
    /\ pc = "tick" /\ caseLabel = "LAUNCHING_BROWSER"
    /\ UNCHANGED <<orchVars, playerVars, walkVars, envVars, obsVars>>
    /\ UNCHANGED process
    /\ UNCHANGED getResultRead
    /\ UNCHANGED hourlyClaimAttempts
    /\ UNCHANGED stateLog
    /\ UNCHANGED stepFault
    /\ UNCHANGED claimFailedAt
    /\ UNCHANGED coolDown
    /\ UNCHANGED tableAmount
    /\ \E ok \in BOOLEAN :
         /\ page' = (page \/ ok)
         /\ IF page \/ ok THEN Break("CHECKING_SESSION") ELSE Uncaught("launch")
    /\ CaseAfter
    /\ UNCHANGED claimSuccessful
    /\ UNCHANGED bonusClaim

\* CHECKING_SESSION: throws without a page and when navigateTo(FAUCET_URL)
\* throws; otherwise url is where the browser ends ("unexpected": neither
\* faucet nor login, also after waitForNavigation, which sets ERROR itself)
TickCheckingSession ==
    /\ pc = "tick" /\ caseLabel = "CHECKING_SESSION"
    /\ UNCHANGED <<orchVars, page, playerVars, walkVars, envVars, obsVars>>
    /\ UNCHANGED process
    /\ UNCHANGED getResultRead
    /\ UNCHANGED hourlyClaimAttempts
    /\ UNCHANGED stateLog
    /\ UNCHANGED stepFault
    /\ UNCHANGED claimFailedAt
    /\ UNCHANGED coolDown
    /\ UNCHANGED tableAmount
    /\ IF ~page THEN Uncaught("page")
       ELSE \E url \in {"faucet", "login", "unexpected", "throw"} :
              IF url = "throw" THEN Uncaught("navigate")
              ELSE Break(IF url = "faucet" THEN "CHECKING_EMAIL_VERIFICATION_STATUS"
                         ELSE IF url = "login" THEN "NEEDS_LOGIN" ELSE "ERROR")
    /\ CaseAfter
    /\ UNCHANGED claimSuccessful
    /\ UNCHANGED bonusClaim

TickNeedsLogin ==
    /\ pc = "tick" /\ caseLabel = "NEEDS_LOGIN"
    /\ UNCHANGED <<orchVars, page, playerVars, walkVars, envVars, currentBalance, hsr,
                   lastHighWin, verifyRequests, emailCheck>>
    /\ UNCHANGED process
    /\ UNCHANGED getResultRead
    /\ UNCHANGED hourlyClaimAttempts
    /\ UNCHANGED lastErrorMessage
    /\ UNCHANGED uncaughtLog
    /\ UNCHANGED details
    /\ UNCHANGED telegram
    /\ UNCHANGED stateLog
    /\ UNCHANGED stepFault
    /\ UNCHANGED claimFailedAt
    /\ UNCHANGED coolDown
    /\ UNCHANGED tableAmount
    /\ \E outcomes \in [1..MAX_LOGIN_ATTEMPTS -> AttemptOutcomes] :
         LET r == signIn(page, outcomes)
         IN /\ signInEnd' = r.end
            /\ Goto(IF r.value = "true" THEN "CHECKING_EMAIL_VERIFICATION_STATUS"
                    ELSE IF r.value = "false" THEN "NEEDS_SIGNUP" ELSE "ERROR")
    /\ CaseAfter
    /\ UNCHANGED claimSuccessful
    /\ UNCHANGED bonusClaim

\* variant: an unavailable page is logged and taken for "nothing to verify"
needsEmailVerification_swallow(pageAvailable, nav, banner, link) ==
    IF ~pageAvailable \/ ~nav THEN [value |-> "false", check |-> "throw"]
    ELSE IF banner = "found" THEN [value |-> "false", check |-> "banner"]
    ELSE IF link THEN [value |-> "true", check |-> "link"]
    ELSE [value |-> "false", check |-> "neither"]

\* needsEmailVerification(): throws when the page is unavailable or the
\* navigation to the faucet fails; banner is the search for 'Your email has
\* been successfully verified' ("found", "absent", or "error": the search
\* threw and was only logged); link is whether the verify link showed up
\* within the timeout (a timeout or any error there is only logged).
needsEmailVerification(pageAvailable, nav, banner, link) ==
    IF ~pageAvailable \/ ~nav THEN [value |-> "throw", check |-> "throw"]
    ELSE IF banner = "found" THEN [value |-> "false", check |-> "banner"]
    ELSE IF link THEN [value |-> "true", check |-> "link"]
    ELSE [value |-> "false", check |-> "neither"]

\* CHECKING_EMAIL_VERIFICATION_STATUS; bonusSpins: getAvailableBonusSpins() > 0
TickCheckingEmailVerificationStatus ==
    /\ pc = "tick" /\ caseLabel = "CHECKING_EMAIL_VERIFICATION_STATUS"
    /\ UNCHANGED <<withdrawalThresholdBalance, systemPausedForWithdrawal,
                   consecutiveRouletteErrors, page, playerVars, walkVars, envVars,
                   currentBalance, hsr, lastHighWin, verifyRequests>>
    /\ UNCHANGED process
    /\ UNCHANGED getResultRead
    /\ UNCHANGED hourlyClaimAttempts
    /\ UNCHANGED lastErrorMessage
    /\ UNCHANGED uncaughtLog
    /\ UNCHANGED details
    /\ UNCHANGED telegram
    /\ UNCHANGED stateLog
    /\ UNCHANGED stepFault
    /\ UNCHANGED claimFailedAt
    /\ UNCHANGED coolDown
    /\ UNCHANGED tableAmount
    /\ \E nav \in BOOLEAN, banner \in {"found", "absent", "error"}, link \in BOOLEAN,
          bonusSpins \in BOOLEAN :
         LET r == needsEmailVerification(page, nav, banner, link)
         IN /\ emailCheck' = r.check
            /\ IF r.value = "true"
               THEN /\ appState' = [appState EXCEPT !.verificationAttempts = 0]
                    /\ stateFile' = saveStateToFile(appState', withdrawalThresholdBalance,
                                                    systemPausedForWithdrawal)
                    /\ Goto("NEEDS_EMAIL_VERIFICATION_REGISTRATION")
               ELSE /\ UNCHANGED <<appState, stateFile>>
                    /\ Goto(IF r.value = "throw" THEN "NEEDS_EMAIL_VERIFICATION_REGISTRATION"
                            ELSE IF ~appState.isInitialSetupComplete THEN "NEEDS_BONUS_CLAIM"
                            ELSE IF bonusSpins THEN "NEEDS_BONUS_CLAIM"
                            ELSE "CLAIMING_HOURLY_FAUCET")
    /\ signInEnd' = "none"
    /\ CaseAfter
    /\ UNCHANGED claimSuccessful
    /\ UNCHANGED bonusClaim

\* signUp() returns false on any failure
TickNeedsSignup ==
    /\ pc = "tick" /\ caseLabel = "NEEDS_SIGNUP"
    /\ UNCHANGED <<orchVars, page, playerVars, walkVars, envVars, currentBalance, hsr,
                   lastHighWin, verifyRequests, emailCheck>>
    /\ UNCHANGED process
    /\ UNCHANGED getResultRead
    /\ UNCHANGED hourlyClaimAttempts
    /\ UNCHANGED lastErrorMessage
    /\ UNCHANGED uncaughtLog
    /\ UNCHANGED details
    /\ UNCHANGED telegram
    /\ UNCHANGED stateLog
    /\ UNCHANGED stepFault
    /\ UNCHANGED claimFailedAt
    /\ UNCHANGED coolDown
    /\ UNCHANGED tableAmount
    /\ \E ok \in BOOLEAN :
         /\ (~page => ~ok)
         /\ Goto(IF ok THEN "SAVING_SETUP_STATE" ELSE "ERROR")
    /\ signInEnd' = "none"
    /\ CaseAfter
    /\ UNCHANGED claimSuccessful
    /\ UNCHANGED bonusClaim

\* variant: the registration is not followed by the email verification
TickSavingSetupState_skipVerification ==
    /\ pc = "tick" /\ caseLabel = "SAVING_SETUP_STATE"
    /\ UNCHANGED <<withdrawalThresholdBalance, systemPausedForWithdrawal,
                   consecutiveRouletteErrors, page, playerVars, walkVars, envVars, obsVars>>
    /\ UNCHANGED process
    /\ UNCHANGED getResultRead
    /\ UNCHANGED hourlyClaimAttempts
    /\ UNCHANGED lastErrorMessage
    /\ UNCHANGED uncaughtLog
    /\ UNCHANGED details
    /\ UNCHANGED telegram
    /\ UNCHANGED stateLog
    /\ UNCHANGED stepFault
    /\ UNCHANGED claimFailedAt
    /\ UNCHANGED coolDown
    /\ UNCHANGED tableAmount
    /\ appState' = [appState EXCEPT !.isInitialSetupComplete = TRUE]
    /\ stateFile' = saveStateToFile(appState', withdrawalThresholdBalance,
                                    systemPausedForWithdrawal)
    /\ Goto("NEEDS_BONUS_CLAIM")
    /\ CaseAfter
    /\ UNCHANGED claimSuccessful
    /\ UNCHANGED bonusClaim

\* SAVING_SETUP_STATE: the setup is marked complete and saved
TickSavingSetupState ==
    /\ pc = "tick" /\ caseLabel = "SAVING_SETUP_STATE"
    /\ UNCHANGED <<withdrawalThresholdBalance, systemPausedForWithdrawal,
                   consecutiveRouletteErrors, page, playerVars, walkVars, envVars, obsVars>>
    /\ UNCHANGED process
    /\ UNCHANGED getResultRead
    /\ UNCHANGED hourlyClaimAttempts
    /\ UNCHANGED lastErrorMessage
    /\ UNCHANGED uncaughtLog
    /\ UNCHANGED details
    /\ UNCHANGED telegram
    /\ UNCHANGED stateLog
    /\ UNCHANGED stepFault
    /\ UNCHANGED claimFailedAt
    /\ UNCHANGED coolDown
    /\ UNCHANGED tableAmount
    /\ appState' = [appState EXCEPT !.isInitialSetupComplete = TRUE]
    /\ stateFile' = saveStateToFile(appState', withdrawalThresholdBalance,
                                    systemPausedForWithdrawal)
    /\ Goto("NEEDS_EMAIL_VERIFICATION_REGISTRATION")
    /\ CaseAfter
    /\ UNCHANGED claimSuccessful
    /\ UNCHANGED bonusClaim

\* goToSettingsAndClickVerify(): navigation to settings.php (nav), the click
\* made by page.evaluate (jsClick), the screenshot taken after it (postShot),
\* and in the catch of the inner try the error screenshot (errShot) and the
\* forced page.click (altClick).  value is what it returns, requests the
\* clicks that reached the site, counted what it added to verificationAttempts.
goToSettingsAndClickVerify(pageAvailable, nav, jsClick, postShot, errShot, altClick) ==
    LET sent == IF jsClick THEN 1 ELSE 0
    IN IF ~pageAvailable \/ ~nav THEN [value |-> FALSE, requests |-> 0, counted |-> 0]
       ELSE IF jsClick /\ postShot THEN [value |-> TRUE, requests |-> 1, counted |-> 1]
       ELSE IF ~errShot THEN [value |-> FALSE, requests |-> sent, counted |-> 0]
       ELSE IF altClick THEN [value |-> TRUE, requests |-> sent + 1, counted |-> 1]
       ELSE [value |-> FALSE, requests |-> sent, counted |-> 0]

TickNeedsEmailVerificationRegistration ==
    /\ pc = "tick" /\ caseLabel = "NEEDS_EMAIL_VERIFICATION_REGISTRATION"
    /\ UNCHANGED <<withdrawalThresholdBalance, systemPausedForWithdrawal,
                   consecutiveRouletteErrors, page, playerVars, walkVars, envVars,
                   currentBalance, signInEnd, hsr, lastHighWin, emailCheck>>
    /\ UNCHANGED process
    /\ UNCHANGED getResultRead
    /\ UNCHANGED hourlyClaimAttempts
    /\ UNCHANGED lastErrorMessage
    /\ UNCHANGED uncaughtLog
    /\ UNCHANGED details
    /\ UNCHANGED telegram
    /\ UNCHANGED stateLog
    /\ UNCHANGED stepFault
    /\ UNCHANGED claimFailedAt
    /\ UNCHANGED coolDown
    /\ UNCHANGED tableAmount
    /\ IF appState.verificationAttempts >= MAX_VERIFICATION_ATTEMPTS
       THEN /\ Goto("ERROR")
            /\ UNCHANGED <<appState, stateFile, verifyRequests, emailCheck>>
       ELSE \E nav \in BOOLEAN, jsClick \in BOOLEAN, postShot \in BOOLEAN,
               errShot \in BOOLEAN, altClick \in BOOLEAN :
              LET r == goToSettingsAndClickVerify(page, nav, jsClick, postShot, errShot, altClick)
              IN /\ verifyRequests' = verifyRequests + r.requests
                 /\ IF r.counted > 0
                    THEN /\ appState' = [appState EXCEPT !.verificationAttempts = @ + r.counted]
                         /\ stateFile' = saveStateToFile(appState', withdrawalThresholdBalance,
                                                         systemPausedForWithdrawal)
                    ELSE UNCHANGED <<appState, stateFile>>
                 /\ Goto(IF r.value THEN "AWAITING_EMAIL_LINK" ELSE "ERROR")
    /\ CaseAfter
    /\ UNCHANGED claimSuccessful
    /\ UNCHANGED bonusClaim

\* verifyEmail(REGISTRATION) returns true / false or throws
TickAwaitingEmailLink ==
    /\ pc = "tick" /\ caseLabel = "AWAITING_EMAIL_LINK"
    /\ UNCHANGED <<withdrawalThresholdBalance, systemPausedForWithdrawal,
                   consecutiveRouletteErrors, page, playerVars, walkVars, envVars, obsVars>>
    /\ UNCHANGED process
    /\ UNCHANGED getResultRead
    /\ UNCHANGED hourlyClaimAttempts
    /\ UNCHANGED lastErrorMessage
    /\ UNCHANGED uncaughtLog
    /\ UNCHANGED details
    /\ UNCHANGED telegram
    /\ UNCHANGED stateLog
    /\ UNCHANGED stepFault
    /\ UNCHANGED claimFailedAt
    /\ UNCHANGED coolDown
    /\ UNCHANGED tableAmount
    /\ \E emailVerified \in BOOLEAN :
         IF emailVerified
         THEN /\ appState' = [appState EXCEPT !.verificationAttempts = 0]
              /\ stateFile' = saveStateToFile(appState', withdrawalThresholdBalance,
                                              systemPausedForWithdrawal)
              /\ Goto("NEEDS_BONUS_CLAIM")
         ELSE /\ Goto(IF appState.verificationAttempts < MAX_VERIFICATION_ATTEMPTS
                      THEN "NEEDS_EMAIL_VERIFICATION_REGISTRATION" ELSE "ERROR")
              /\ UNCHANGED <<appState, stateFile>>
    /\ CaseAfter
    /\ UNCHANGED claimSuccessful
    /\ UNCHANGED bonusClaim

\* NEEDS_BONUS_CLAIM (the verification loop is over: verifyRequests starts
\* again at 0): the state is saved after a claimed bonus and when the
\* setup is marked complete (lastBonusClaimTime is not modelled)
TickNeedsBonusClaim ==
    /\ pc = "tick" /\ caseLabel = "NEEDS_BONUS_CLAIM"
    /\ UNCHANGED <<withdrawalThresholdBalance, systemPausedForWithdrawal,
                   consecutiveRouletteErrors, page, playerVars, walkVars, envVars,
                   currentBalance, signInEnd, hsr, lastHighWin, emailCheck>>
    /\ UNCHANGED process
    /\ UNCHANGED getResultRead
    /\ UNCHANGED hourlyClaimAttempts
    /\ UNCHANGED lastErrorMessage
    /\ UNCHANGED uncaughtLog
    /\ UNCHANGED details
    /\ UNCHANGED telegram
    /\ UNCHANGED stateLog
    /\ UNCHANGED stepFault
    /\ UNCHANGED claimFailedAt
    /\ UNCHANGED coolDown
    /\ UNCHANGED tableAmount
    /\ \E bonusClaimed \in BOOLEAN :
         /\ (~page => ~bonusClaimed)
         /\ appState' = [appState EXCEPT !.isInitialSetupComplete = TRUE]
         /\ stateFile' = (IF bonusClaimed \/ ~appState.isInitialSetupComplete
                          THEN saveStateToFile(appState', withdrawalThresholdBalance,
                                               systemPausedForWithdrawal)
                          ELSE stateFile)
    /\ Goto("CLAIMING_HOURLY_FAUCET")
    /\ verifyRequests' = 0
    /\ CaseAfter
    /\ UNCHANGED claimSuccessful
    /\ UNCHANGED bonusClaim

\* how a call of claimHourlyFaucet can end: the result read from the page
\* after the click, or no result read ("unread": no page, the tab or the
\* button not found, or an operation threw)
ClaimOutcomes == {"success", "error", "nomessage", "unread"}

\* variant: only the success message of the site counts as a claim
claimHourlyFaucet_confirmedOnly(outcome) ==
    outcome = "success"

\* claimHourlyFaucet: true when the success message is shown, and true as
\* well when the error message or no message is shown ("Even if we're not
\* sure, return true to avoid retrying immediately"); false when the claim
\* ended before the result was read
claimHourlyFaucet(outcome) ==
    IF outcome = "unread" THEN FALSE
    ELSE IF outcome = "success" THEN TRUE
    ELSE TRUE

\* attemptHourlyFaucetClaim: when claimHourlyFaucet returns true the claim
\* time is recorded and saved
attemptHourlyFaucetClaim(outcome) ==
    /\ claimSuccessful' = outcome
    /\ IF claimHourlyFaucet(outcome)
       THEN /\ appState' = [appState EXCEPT !.lastFaucetClaimTime = now]
            /\ stateFile' = saveStateToFile(appState', withdrawalThresholdBalance,
                                            systemPausedForWithdrawal)
       ELSE UNCHANGED <<appState, stateFile>>

\* CLAIMING_HOURLY_FAUCET: up to 3 attempts; roulette starts either way
TickClaimingHourlyFaucet ==
    /\ pc = "tick" /\ caseLabel = "CLAIMING_HOURLY_FAUCET"
    /\ UNCHANGED <<withdrawalThresholdBalance, systemPausedForWithdrawal,
                   consecutiveRouletteErrors, page, playerVars, walkVars, envVars, obsVars>>
    /\ UNCHANGED process
    /\ UNCHANGED getResultRead
    /\ UNCHANGED lastErrorMessage
    /\ UNCHANGED uncaughtLog
    /\ UNCHANGED details
    /\ UNCHANGED telegram
    /\ UNCHANGED stateLog
    /\ UNCHANGED stepFault
    /\ UNCHANGED coolDown
    /\ UNCHANGED tableAmount
    /\ \E outcome \in ClaimOutcomes, attempts \in 1..MAX_HOURLY_CLAIM_ATTEMPTS :
         LET hourlyClaimSuccess == claimHourlyFaucet(outcome)
         IN /\ (~page => outcome = "unread")
            /\ (~hourlyClaimSuccess => attempts = MAX_HOURLY_CLAIM_ATTEMPTS)
            /\ attemptHourlyFaucetClaim(outcome)
            /\ hourlyClaimAttempts' = attempts
            /\ claimFailedAt' = (IF hourlyClaimSuccess THEN NULL ELSE now)
    /\ Goto("PLAYING_ROULETTE")
    /\ CaseAfter
    /\ UNCHANGED bonusClaim

\* PAUSED_FOR_FAUCET: up to 3 attempts; roulette resumes either way
TickPausedForFaucet ==
    /\ pc = "tick" /\ caseLabel = "PAUSED_FOR_FAUCET"
    /\ UNCHANGED <<withdrawalThresholdBalance, systemPausedForWithdrawal,
                   consecutiveRouletteErrors, page, playerVars, walkVars, envVars, obsVars>>
    /\ UNCHANGED process
    /\ UNCHANGED getResultRead
    /\ UNCHANGED lastErrorMessage
    /\ UNCHANGED uncaughtLog
    /\ UNCHANGED details
    /\ UNCHANGED telegram
    /\ UNCHANGED stateLog
    /\ UNCHANGED stepFault
    /\ UNCHANGED coolDown
    /\ UNCHANGED tableAmount
    /\ \E outcome \in ClaimOutcomes, attempts \in 1..MAX_HOURLY_CLAIM_ATTEMPTS :
         LET hourlyClaimSuccess == claimHourlyFaucet(outcome)
         IN /\ (~page => outcome = "unread")
            /\ (~hourlyClaimSuccess => attempts = MAX_HOURLY_CLAIM_ATTEMPTS)
            /\ attemptHourlyFaucetClaim(outcome)
            /\ hourlyClaimAttempts' = attempts
            /\ claimFailedAt' = (IF hourlyClaimSuccess THEN NULL ELSE now)
    /\ Goto("PLAYING_ROULETTE")
    /\ CaseAfter
    /\ UNCHANGED bonusClaim

\* variant: the notification tick resumes the play at once
TickWithdrawalThresholdReached_resume ==
    /\ pc = "tick" /\ caseLabel = "WITHDRAWAL_THRESHOLD_REACHED"
    /\ UNCHANGED <<orchVars, page, playerVars, walkVars, envVars, obsVars>>
    /\ UNCHANGED process
    /\ UNCHANGED getResultRead
    /\ UNCHANGED hourlyClaimAttempts
    /\ UNCHANGED lastErrorMessage
    /\ UNCHANGED uncaughtLog
    /\ UNCHANGED details
    /\ UNCHANGED stateLog
    /\ UNCHANGED stepFault
    /\ UNCHANGED claimFailedAt
    /\ UNCHANGED coolDown
    /\ UNCHANGED tableAmount
    /\ Goto("RESUMING_AFTER_WITHDRAWAL")
    /\ CaseAfter
    /\ NotifySystem
    /\ UNCHANGED claimSuccessful
    /\ UNCHANGED bonusClaim

TickWithdrawalThresholdReached ==
    /\ pc = "tick" /\ caseLabel = "WITHDRAWAL_THRESHOLD_REACHED"
    /\ UNCHANGED <<orchVars, page, playerVars, walkVars, envVars, obsVars>>
    /\ UNCHANGED process
    /\ UNCHANGED getResultRead
    /\ UNCHANGED hourlyClaimAttempts
    /\ UNCHANGED lastErrorMessage
    /\ UNCHANGED uncaughtLog
    /\ UNCHANGED details
    /\ UNCHANGED stateLog
    /\ UNCHANGED stepFault
    /\ UNCHANGED claimFailedAt
    /\ UNCHANGED coolDown
    /\ UNCHANGED tableAmount
    /\ Goto("PAUSED_FOR_MANUAL_WITHDRAWAL")
    /\ CaseAfter
    /\ NotifySystem
    /\ UNCHANGED claimSuccessful
    /\ UNCHANGED bonusClaim

\* the pause without the faucet claim
TickPausedForManualWithdrawal_noClaim ==
    /\ pc = "tick" /\ caseLabel = "PAUSED_FOR_MANUAL_WITHDRAWAL"
    /\ UNCHANGED <<consecutiveRouletteErrors, page, playerVars, walkVars, envVars, signInEnd,
                   hsr, lastHighWin, verifyRequests, emailCheck>>
    /\ UNCHANGED process
    /\ UNCHANGED getResultRead
    /\ UNCHANGED lastErrorMessage
    /\ UNCHANGED uncaughtLog
    /\ UNCHANGED details
    /\ UNCHANGED stateLog
    /\ UNCHANGED stepFault
    /\ UNCHANGED claimFailedAt
    /\ UNCHANGED coolDown
    /\ UNCHANGED tableAmount
    /\ IF ~systemPausedForWithdrawal \/ withdrawalThresholdBalance = NULL
       THEN /\ UNCHANGED <<withdrawalThresholdBalance, systemPausedForWithdrawal, currentBalance>>
            /\ UNCHANGED <<appState, stateFile>>
            /\ claimSuccessful' = "none"
            /\ hourlyClaimAttempts' = 0
            /\ Goto("PAUSED_FOR_MANUAL_WITHDRAWAL")
       ELSE \E read \in checkBalance :
              /\ currentBalance' = read
              /\ IF WithdrawalDetected(withdrawalThresholdBalance, read)
                 THEN /\ systemPausedForWithdrawal' = FALSE
                      /\ withdrawalThresholdBalance' = NULL
                      /\ Goto("RESUMING_AFTER_WITHDRAWAL")
                      /\ UNCHANGED <<appState, stateFile, hourlyClaimAttempts>>
                      /\ claimSuccessful' = "none"
                 ELSE /\ UNCHANGED <<withdrawalThresholdBalance, systemPausedForWithdrawal>>
                      /\ UNCHANGED <<appState, stateFile>>
                      /\ claimSuccessful' = "none"
                      /\ hourlyClaimAttempts' = 0
                      /\ Goto("PAUSED_FOR_MANUAL_WITHDRAWAL")
    /\ CaseAfter
    /\ IF currentState' = "RESUMING_AFTER_WITHDRAWAL" THEN NotifyMoney ELSE UNCHANGED telegram
    /\ UNCHANGED bonusClaim

\* PAUSED_FOR_MANUAL_WITHDRAWAL: detectManualWithdrawal, then the faucet gate
TickPausedForManualWithdrawal ==
    /\ pc = "tick" /\ caseLabel = "PAUSED_FOR_MANUAL_WITHDRAWAL"
    /\ UNCHANGED <<consecutiveRouletteErrors, page, playerVars, walkVars, envVars, signInEnd,
                   hsr, lastHighWin, verifyRequests, emailCheck>>
    /\ UNCHANGED process
    /\ UNCHANGED getResultRead
    /\ UNCHANGED lastErrorMessage
    /\ UNCHANGED uncaughtLog
    /\ UNCHANGED details
    /\ UNCHANGED stateLog
    /\ UNCHANGED stepFault
    /\ UNCHANGED claimFailedAt
    /\ UNCHANGED coolDown
    /\ UNCHANGED tableAmount
    /\ IF ~systemPausedForWithdrawal \/ withdrawalThresholdBalance = NULL
       THEN /\ UNCHANGED <<withdrawalThresholdBalance, systemPausedForWithdrawal, currentBalance>>
            /\ IF isTimeForFaucetClaim
               THEN \E outcome \in ClaimOutcomes :
                      /\ (~page => outcome = "unread")
                      /\ attemptHourlyFaucetClaim(outcome)
               ELSE /\ UNCHANGED <<appState, stateFile>>
                    /\ claimSuccessful' = "none"
            /\ hourlyClaimAttempts' = (IF isTimeForFaucetClaim THEN 1 ELSE 0)
            /\ Goto("PAUSED_FOR_MANUAL_WITHDRAWAL")
       ELSE \E read \in checkBalance :
              /\ currentBalance' = read
              /\ IF WithdrawalDetected(withdrawalThresholdBalance, read)
                 THEN /\ systemPausedForWithdrawal' = FALSE
                      /\ withdrawalThresholdBalance' = NULL
                      /\ Goto("RESUMING_AFTER_WITHDRAWAL")
                      /\ UNCHANGED <<appState, stateFile, hourlyClaimAttempts>>
                      /\ claimSuccessful' = "none"
                 ELSE /\ UNCHANGED <<withdrawalThresholdBalance, systemPausedForWithdrawal>>
                      /\ IF isTimeForFaucetClaim
                         THEN \E outcome \in ClaimOutcomes :
                                /\ (~page => outcome = "unread")
                                /\ attemptHourlyFaucetClaim(outcome)
                         ELSE /\ UNCHANGED <<appState, stateFile>>
                              /\ claimSuccessful' = "none"
                      /\ hourlyClaimAttempts' = (IF isTimeForFaucetClaim THEN 1 ELSE 0)
                      /\ Goto("PAUSED_FOR_MANUAL_WITHDRAWAL")
    /\ CaseAfter
    /\ IF currentState' = "RESUMING_AFTER_WITHDRAWAL" THEN NotifyMoney ELSE UNCHANGED telegram
    /\ UNCHANGED bonusClaim

\* the resumption with resetPnL() commented out
TickResumingAfterWithdrawal_keepPnL ==
    /\ pc = "tick" /\ caseLabel = "RESUMING_AFTER_WITHDRAWAL"
    /\ UNCHANGED <<appState, withdrawalThresholdBalance, systemPausedForWithdrawal, stateFile,
                   page, verificationErrorCount, spinErrorCount, prevWinLevel, cycleCount,
                   walkVars, envVars, signInEnd, hsr, lastHighWin, verifyRequests, emailCheck>>
    /\ UNCHANGED process
    /\ UNCHANGED getResultRead
    /\ UNCHANGED hourlyClaimAttempts
    /\ UNCHANGED lastErrorMessage
    /\ UNCHANGED uncaughtLog
    /\ UNCHANGED details
    /\ UNCHANGED stateLog
    /\ UNCHANGED stepFault
    /\ UNCHANGED claimFailedAt
    /\ UNCHANGED coolDown
    /\ UNCHANGED tableAmount
    /\ consecutiveRouletteErrors' = 0
    /\ pnl' = pnl
    /\ currentBalance' = NULL
    /\ Goto("PLAYING_ROULETTE")
    /\ CaseAfter
    /\ NotifySystem
    /\ UNCHANGED claimSuccessful
    /\ UNCHANGED bonusClaim

\* RESUMING_AFTER_WITHDRAWAL: consecutiveRouletteErrors = 0 and resetPnL()
TickResumingAfterWithdrawal ==
    /\ pc = "tick" /\ caseLabel = "RESUMING_AFTER_WITHDRAWAL"
    /\ UNCHANGED <<appState, withdrawalThresholdBalance, systemPausedForWithdrawal, stateFile,
                   page, verificationErrorCount, spinErrorCount, prevWinLevel, cycleCount,
                   walkVars, envVars, signInEnd, hsr, lastHighWin, verifyRequests, emailCheck>>
    /\ UNCHANGED process
    /\ UNCHANGED getResultRead
    /\ UNCHANGED hourlyClaimAttempts
    /\ UNCHANGED lastErrorMessage
    /\ UNCHANGED uncaughtLog
    /\ UNCHANGED details
    /\ UNCHANGED stateLog
    /\ UNCHANGED stepFault
    /\ UNCHANGED claimFailedAt
    /\ UNCHANGED coolDown
    /\ UNCHANGED tableAmount
    /\ consecutiveRouletteErrors' = 0
    /\ pnl' = 0
    /\ currentBalance' = NULL
    /\ Goto("PLAYING_ROULETTE")
    /\ CaseAfter
    /\ NotifySystem
    /\ UNCHANGED claimSuccessful
    /\ UNCHANGED bonusClaim

TickError ==
    /\ pc = "tick" /\ caseLabel = "ERROR"
    /\ UNCHANGED <<orchVars, page, playerVars, walkVars, envVars, currentBalance, hsr,
                   lastHighWin, verifyRequests, emailCheck>>
    /\ UNCHANGED getResultRead
    /\ UNCHANGED hourlyClaimAttempts
    /\ UNCHANGED lastErrorMessage
    /\ UNCHANGED uncaughtLog
    /\ UNCHANGED details
    /\ UNCHANGED stateLog
    /\ UNCHANGED stepFault
    /\ UNCHANGED claimFailedAt
    /\ UNCHANGED coolDown
    /\ UNCHANGED tableAmount
    /\ Goto("STOPPING")
    /\ signInEnd' = "none"
    /\ process' = [process EXCEPT !.error = TRUE]
    /\ CaseAfter
    /\ NotifySystem
    /\ UNCHANGED claimSuccessful
    /\ UNCHANGED bonusClaim

\* STOPPING without the call of closeBrowser()
TickStopping_skipClose ==
    /\ pc = "tick" /\ caseLabel = "STOPPING"
    /\ UNCHANGED <<orchVars, page, playerVars, walkVars, envVars, obsVars>>
    /\ UNCHANGED process
    /\ UNCHANGED getResultRead
    /\ UNCHANGED hourlyClaimAttempts
    /\ UNCHANGED lastErrorMessage
    /\ UNCHANGED uncaughtLog
    /\ UNCHANGED details
    /\ UNCHANGED stateLog
    /\ UNCHANGED stepFault
    /\ UNCHANGED claimFailedAt
    /\ UNCHANGED coolDown
    /\ UNCHANGED tableAmount
    /\ currentState' = "STOPPED"
    /\ pc' = "done"
    /\ CaseAfter
    /\ NotifySystem
    /\ UNCHANGED claimSuccessful
    /\ UNCHANGED bonusClaim

\* STOPPING: closeBrowser(); the loop ends in STOPPED
TickStopping ==
    /\ pc = "tick" /\ caseLabel = "STOPPING"
    /\ UNCHANGED <<orchVars, playerVars, walkVars, envVars, obsVars>>
    /\ UNCHANGED process
    /\ UNCHANGED getResultRead
    /\ UNCHANGED hourlyClaimAttempts
    /\ UNCHANGED lastErrorMessage
    /\ UNCHANGED uncaughtLog
    /\ UNCHANGED details
    /\ UNCHANGED stateLog
    /\ UNCHANGED stepFault
    /\ UNCHANGED claimFailedAt
    /\ UNCHANGED coolDown
    /\ UNCHANGED tableAmount
    /\ page' = FALSE
    /\ currentState' = "STOPPED"
    /\ pc' = "done"
    /\ CaseAfter
    /\ NotifySystem
    /\ UNCHANGED claimSuccessful
    /\ UNCHANGED bonusClaim

\* ------------------------------------------------------------ environment
\* the balance shown by the site changes (play, claims, a manual withdrawal)
BalanceChange ==
    /\ pc = "tick"
    /\ UNCHANGED <<currentState, orchVars, page, playerVars, walkVars, pc, now, boot, maxCycles,
                   maxLosses,
                   obsVars>>
    /\ UNCHANGED process
    /\ UNCHANGED getResultRead
    /\ UNCHANGED hourlyClaimAttempts
    /\ UNCHANGED lastErrorMessage
    /\ UNCHANGED uncaughtLog
    /\ UNCHANGED details
    /\ UNCHANGED telegram
    /\ UNCHANGED stateLog
    /\ UNCHANGED stepFault
    /\ UNCHANGED claimFailedAt
    /\ UNCHANGED coolDown
    /\ UNCHANGED tableAmount
    /\ \E b \in Balances : b # balance /\ balance' = b
    /\ CaseAfter
    /\ UNCHANGED claimSuccessful
    /\ UNCHANGED bonusClaim

AdvanceTime ==
    /\ pc = "tick"
    /\ now + TimeStep <= MaxTime
    /\ UNCHANGED <<currentState, orchVars, page, playerVars, walkVars, pc, balance, boot,
                   maxCycles, maxLosses, obsVars>>
    /\ UNCHANGED process
    /\ UNCHANGED getResultRead
    /\ UNCHANGED hourlyClaimAttempts
    /\ UNCHANGED lastErrorMessage
    /\ UNCHANGED uncaughtLog
    /\ UNCHANGED details
    /\ UNCHANGED telegram
    /\ UNCHANGED stateLog
    /\ UNCHANGED stepFault
    /\ UNCHANGED claimFailedAt
    /\ UNCHANGED coolDown
    /\ UNCHANGED tableAmount
    /\ now' = now + TimeStep
    /\ CaseAfter
    /\ UNCHANGED claimSuccessful
    /\ UNCHANGED bonusClaim

\* browser.on('disconnected'): browser = null, page = null
BrowserDisconnected ==
    /\ pc = "tick"
    /\ page
    /\ UNCHANGED <<currentState, orchVars, playerVars, walkVars, pc, envVars, obsVars>>
    /\ UNCHANGED process
    /\ UNCHANGED getResultRead
    /\ UNCHANGED hourlyClaimAttempts
    /\ UNCHANGED lastErrorMessage
    /\ UNCHANGED uncaughtLog
    /\ UNCHANGED details
    /\ UNCHANGED telegram
    /\ UNCHANGED stateLog
    /\ UNCHANGED stepFault
    /\ UNCHANGED claimFailedAt
    /\ UNCHANGED coolDown
    /\ UNCHANGED tableAmount
    /\ page' = FALSE
    /\ CaseAfter
    /\ UNCHANGED claimSuccessful
    /\ UNCHANGED bonusClaim

\* The process dies (crash, kill) at any point and is started again: every
\* module variable has its initial value, appState.json is what was last saved.
Restart ==
    /\ boot < MaxRestarts
    /\ UNCHANGED <<stateFile, balance, now, maxCycles, maxLosses>>
    /\ boot' = boot + 1
    /\ currentState' = "INITIALIZING"
    /\ pc' = "tick"
    /\ appState' = DefaultAppState
    /\ withdrawalThresholdBalance' = NULL
    /\ systemPausedForWithdrawal' = FALSE
    /\ consecutiveRouletteErrors' = 0
    /\ page' = FALSE
    /\ verificationErrorCount' = 0
    /\ spinErrorCount' = 0
    /\ prevWinLevel' = NULL
    /\ pnl' = 0
    /\ cycleCount' = 0
    /\ level' = 0
    /\ cumulative' = 0
    /\ targetChoice' = "none"
    /\ cycleResult' = NoResult
    /\ currentBalance' = NULL
    /\ signInEnd' = "none"
    /\ hsr' = NoHsr
    /\ lastHighWin' = FALSE
    /\ verifyRequests' = 0
    /\ emailCheck' = "none"
    /\ process' = NoProcess
    /\ getResultRead' = "none"
    /\ hourlyClaimAttempts' = 0
    /\ caseLabel' = "INITIALIZING"
    /\ lastErrorMessage' = ""
    /\ uncaughtLog' = "none"
    /\ details' = NoDetails
    /\ telegram' = NoTelegram
    /\ stateLog' = <<"INITIALIZING">>
    /\ stepFault' = "none"
    /\ claimFailedAt' = NULL
    /\ coolDown' = FALSE
    /\ tableAmount' = NULL
    /\ claimSuccessful' = "none"
    /\ bonusClaim' = NoBonusClaim

\* runStateMachine() returned and no handler is pending: start() resolves,
\* index.js has nothing left to run and Node exits with status 0
ProcessExit ==
    /\ pc = "done"
    /\ process.handler = "none"
    /\ UNCHANGED <<currentState, orchVars, page, playerVars, walkVars, envVars, obsVars>>
    /\ UNCHANGED getResultRead
    /\ UNCHANGED hourlyClaimAttempts
    /\ UNCHANGED lastErrorMessage
    /\ UNCHANGED uncaughtLog
    /\ UNCHANGED details
    /\ UNCHANGED telegram
    /\ UNCHANGED stateLog
    /\ UNCHANGED stepFault
    /\ UNCHANGED claimFailedAt
    /\ UNCHANGED coolDown
    /\ UNCHANGED tableAmount
    /\ process' = [process EXCEPT !.exitCode = 0]
    /\ pc' = "exited"
    /\ CaseAfter
    /\ UNCHANGED claimSuccessful
    /\ UNCHANGED bonusClaim

\* ------------------------------------------------- machine specification
Init ==
    /\ currentState = "INITIALIZING"
    /\ pc = "tick"
    /\ appState = DefaultAppState
    /\ withdrawalThresholdBalance = NULL
    /\ systemPausedForWithdrawal = FALSE
    /\ consecutiveRouletteErrors = 0
    /\ stateFile = NoFile
    /\ page = FALSE
    /\ verificationErrorCount = 0
    /\ spinErrorCount = 0
    /\ prevWinLevel = NULL
    /\ pnl = 0
    /\ cycleCount = 0
    /\ level = 0
    /\ cumulative = 0
    /\ targetChoice = "none"
    /\ cycleResult = NoResult
    /\ balance \in Balances
    /\ now = TimeStep
    /\ boot = 0
    /\ maxCycles = MaxCyclesMachine
    /\ maxLosses = MaxLossesMachine
    /\ currentBalance = NULL
    /\ signInEnd = "none"
    /\ hsr = NoHsr
    /\ lastHighWin = FALSE
    /\ verifyRequests = 0
    /\ emailCheck = "none"
    /\ process = NoProcess
    /\ getResultRead = "none"
    /\ hourlyClaimAttempts = 0
    /\ caseLabel = "INITIALIZING"
    /\ lastErrorMessage = ""
    /\ uncaughtLog = "none"
    /\ details = NoDetails
    /\ telegram = NoTelegram
    /\ stateLog = <<"INITIALIZING">>
    /\ stepFault = "none"
    /\ claimFailedAt = NULL
    /\ coolDown = FALSE
    /\ tableAmount = NULL
    /\ claimSuccessful = "none"
    /\ bonusClaim = NoBonusClaim

Next ==
    \/ TickInitializing
    \/ TickNeedsConfig
    \/ TickLoadingState
    \/ TickLaunchingBrowser
    \/ TickCheckingSession
    \/ TickNeedsLogin
    \/ TickCheckingEmailVerificationStatus
    \/ TickNeedsSignup
    \/ TickSavingSetupState
    \/ TickNeedsEmailVerificationRegistration
    \/ TickAwaitingEmailLink
    \/ TickNeedsBonusClaim
    \/ TickClaimingHourlyFaucet
    \/ PlayingRoulette
    \/ PlayOneCycleBegin
    \/ Deposit
    \/ Spin
    \/ Result
    \/ AfterCycle
    \/ TickPausedForFaucet
    \/ TickWithdrawalThresholdReached
    \/ TickPausedForManualWithdrawal
    \/ TickResumingAfterWithdrawal
    \/ TickError
    \/ TickStopping
    \/ Sleep
    \/ BalanceChange
    \/ AdvanceTime
    \/ BrowserDisconnected
    \/ ProcessExit
    \/ Restart

Spec == Init /\ [][Next]_vars

\* ------------------------------------------------ engine specification
\* The process is in PLAYING_ROULETTE after a faucet claim at time `now`, with
\* a balance below the trigger; only roulette cycles run.
InitRoulette ==
    /\ currentState = "PLAYING_ROULETTE"
    /\ pc = "tick"
    /\ now = TimeStep
    /\ appState = [DefaultAppState EXCEPT !.isInitialSetupComplete = TRUE,
                                          !.lastFaucetClaimTime = TimeStep]
    /\ withdrawalThresholdBalance = NULL
    /\ systemPausedForWithdrawal = FALSE
    /\ consecutiveRouletteErrors = 0
    /\ stateFile = saveStateToFile(appState, NULL, FALSE)
    /\ page = TRUE
    /\ verificationErrorCount = 0
    /\ spinErrorCount = 0
    /\ prevWinLevel = NULL
    /\ pnl = 0
    /\ cycleCount = 0
    /\ level = 0
    /\ cumulative = 0
    /\ targetChoice = "none"
    /\ cycleResult = NoResult
    /\ balance = 6638300
    /\ boot = 0
    /\ maxCycles = MaxCyclesEngine
    /\ maxLosses = LAST_LEVEL + 1
    /\ currentBalance = NULL
    /\ signInEnd = "none"
    /\ hsr = NoHsr
    /\ lastHighWin = FALSE
    /\ verifyRequests = 0
    /\ emailCheck = "none"
    /\ process = NoProcess
    /\ getResultRead = "none"
    /\ hourlyClaimAttempts = 0
    /\ caseLabel = "PLAYING_ROULETTE"
    /\ lastErrorMessage = ""
    /\ uncaughtLog = "none"
    /\ details = NoDetails
    /\ telegram = NoTelegram
    /\ stateLog = <<>>
    /\ stepFault = "none"
    /\ claimFailedAt = NULL
    /\ coolDown = FALSE
    /\ tableAmount = NULL
    /\ claimSuccessful = "none"
    /\ bonusClaim = NoBonusClaim

NextRoulette ==
    \/ PlayingRoulette
    \/ PlayOneCycleBegin
    \/ Deposit
    \/ Spin
    \/ Result
    \/ AfterCycle
    \/ Sleep

SpecRoulette == InitRoulette /\ [][NextRoulette]_vars

\* --------------------------------------------- shutdown specification
\* positions at which the loop is suspended in an await, so that the SIGINT
\* handler or its timer can run: the delay of the loop, the awaits of the
\* case that is running ("tick" and the steps of a roulette cycle), and the
\* time after the loop has ended
AwaitPoints == {"sleep", "tick", "play", "deposit", "spin", "result", "hsr", "done"}

\* currentState as the handler sees it: the ERROR case sets STOPPING before
\* its first await, every other case assigns currentState after its awaits
StateAtAwait ==
    IF pc = "tick" /\ caseLabel = "ERROR" THEN "STOPPING" ELSE currentState

\* process.on('SIGINT') in start(): outside STOPPING / STOPPED the handler
\* sets STOPPING and starts delay(2000); otherwise it calls process.exit(0).
\* A signal received during the delay(250) of the loop cannot see its own
\* timer end before that delay ends ("wait").
Sigint ==
    /\ pc \in AwaitPoints
    /\ process.signals < MaxSignals
    /\ UNCHANGED <<orchVars, page, playerVars, walkVars, envVars, obsVars>>
    /\ UNCHANGED getResultRead
    /\ UNCHANGED hourlyClaimAttempts
    /\ UNCHANGED lastErrorMessage
    /\ UNCHANGED uncaughtLog
    /\ UNCHANGED details
    /\ UNCHANGED telegram
    /\ UNCHANGED stateLog
    /\ UNCHANGED stepFault
    /\ UNCHANGED claimFailedAt
    /\ UNCHANGED coolDown
    /\ UNCHANGED tableAmount
    /\ IF StateAtAwait \notin {"STOPPING", "STOPPED"}
       THEN /\ currentState' = "STOPPING"
            /\ process' = [process EXCEPT !.signals = @ + 1,
                                          !.handler = IF @ = "none" /\ pc = "sleep"
                                                      THEN "wait"
                                                      ELSE IF @ = "wait" THEN "wait" ELSE "grace"]
            /\ UNCHANGED pc
       ELSE /\ process' = [process EXCEPT !.signals = @ + 1, !.exitCode = 0]
            /\ pc' = "exited"
            /\ currentState' = StateAtAwait
    /\ CaseAfter
    /\ UNCHANGED claimSuccessful
    /\ UNCHANGED bonusClaim

\* the delay(2000) of the handler ends: closeBrowser() and process.exit(1)
\* unless the loop has reached STOPPED, then process.exit(0)
GraceExpires ==
    /\ pc \in AwaitPoints
    /\ process.handler = "grace"
    /\ UNCHANGED <<orchVars, playerVars, walkVars, envVars, obsVars>>
    /\ UNCHANGED getResultRead
    /\ UNCHANGED hourlyClaimAttempts
    /\ UNCHANGED lastErrorMessage
    /\ UNCHANGED uncaughtLog
    /\ UNCHANGED details
    /\ UNCHANGED telegram
    /\ UNCHANGED stateLog
    /\ UNCHANGED stepFault
    /\ UNCHANGED claimFailedAt
    /\ UNCHANGED coolDown
    /\ UNCHANGED tableAmount
    /\ IF currentState # "STOPPED"
       THEN /\ page' = FALSE
            /\ process' = [process EXCEPT !.exitCode = 1]
       ELSE /\ UNCHANGED page
            /\ process' = [process EXCEPT !.exitCode = 0]
    /\ pc' = "exited"
    /\ currentState' = StateAtAwait
    /\ CaseAfter
    /\ UNCHANGED claimSuccessful
    /\ UNCHANGED bonusClaim

NextShutdown ==
    \/ TickInitializing
    \/ TickNeedsConfig
    \/ TickLoadingState
    \/ TickLaunchingBrowser
    \/ TickCheckingSession
    \/ TickNeedsLogin
    \/ TickCheckingEmailVerificationStatus
    \/ TickNeedsSignup
    \/ TickSavingSetupState
    \/ TickNeedsEmailVerificationRegistration
    \/ TickAwaitingEmailLink
    \/ TickNeedsBonusClaim
    \/ TickClaimingHourlyFaucet
    \/ PlayingRoulette
    \/ PlayOneCycleBegin
    \/ Deposit
    \/ Spin
    \/ Result
    \/ AfterCycle
    \/ TickPausedForFaucet
    \/ TickWithdrawalThresholdReached
    \/ TickPausedForManualWithdrawal
    \/ TickResumingAfterWithdrawal
    \/ TickError
    \/ TickStopping
    \/ Sleep
    \/ BrowserDisconnected
    \/ Sigint
    \/ GraceExpires
    \/ ProcessExit

SpecShutdown == Init /\ [][NextShutdown]_vars

\* The timer of delay(250) fires and the ERROR and STOPPING cases, which
\* catch every error of the calls they await, run to their end.
SpecShutdownFair ==
    SpecShutdown /\ WF_vars(Sleep) /\ WF_vars(TickError) /\ WF_vars(TickStopping)

\* ======================================================================
\* Properties
\* ======================================================================
\* a step of the running process (not its restart)
SameProcess == boot' = boot

\* the step is a tick of runStateMachine taken in state s
TickOf(s) == pc = "tick" /\ caseLabel = s /\ pc' \notin {"tick", "exited"} /\ SameProcess

\* the step enters playOneCycle
CycleStarted == cycleCount' > cycleCount

\* C1: while systemPausedForWithdrawal is true no roulette cycle is started,
\* also after a restart that reloads the flag from appState.json.
C1_NoCycleWhileArmed ==
    [][systemPausedForWithdrawal => ~CycleStarted]_vars

\* C2: the NEEDS_LOGIN tick goes to NEEDS_SIGNUP only after a logical login
\* failure; every technical failure of signIn goes to ERROR.
C2_TechnicalLoginFailureGoesToError ==
    [][TickOf("NEEDS_LOGIN") =>
          /\ (currentState' = "NEEDS_SIGNUP" => signInEnd' = "logical")
          /\ (signInEnd' \in {"technical", "page_unavailable"} => currentState' = "ERROR")]_vars

\* C3: while paused for manual withdrawal the flag stays true on every check
\* that reads a drop below 10 TRX from the balance recorded at arming, and it
\* is cleared only by a check that reads a drop of at least 10 TRX.
C3_ArmedUntilDropOfTen ==
    [][SameProcess =>
          /\ (TickOf("PAUSED_FOR_MANUAL_WITHDRAWAL") /\ systemPausedForWithdrawal
                /\ withdrawalThresholdBalance # NULL
              => (systemPausedForWithdrawal'
                    <=> withdrawalThresholdBalance - currentBalance' < 10000000))
          /\ (systemPausedForWithdrawal /\ ~systemPausedForWithdrawal'
              => /\ TickOf("PAUSED_FOR_MANUAL_WITHDRAWAL")
                 /\ withdrawalThresholdBalance - currentBalance' >= 10000000)]_vars

\* a check has read a drop of 9.999999 TRX and the system is still paused
C3_Witness ==
    /\ currentState = "PAUSED_FOR_MANUAL_WITHDRAWAL"
    /\ pc = "sleep"
    /\ systemPausedForWithdrawal
    /\ withdrawalThresholdBalance = 16638300
    /\ currentBalance = 6638301

\* C4: the first PLAYING_ROULETTE tick at which the balance is >= 16.6383 TRX
\* arms the controller and goes to WITHDRAWAL_THRESHOLD_REACHED, and no cycle
\* is played in that tick or afterwards while the controller is armed.
C4_ArmsAtFirstTickAtTrigger ==
    [][/\ (TickOf("PLAYING_ROULETTE") /\ balance >= 16638300 /\ ~systemPausedForWithdrawal
           => /\ systemPausedForWithdrawal'
              /\ currentState' = "WITHDRAWAL_THRESHOLD_REACHED")
       /\ (balance >= 16638300 /\ currentState = "PLAYING_ROULETTE" /\ SameProcess
           => ~CycleStarted)
       /\ (systemPausedForWithdrawal /\ SameProcess => ~CycleStarted)]_vars

\* a step of the walk or of the rest of the PLAYING_ROULETTE tick
WalkStep(from, to) == pc = from /\ pc' = to /\ SameProcess

BudgetTrip == verificationErrorCount >= 5 \/ spinErrorCount >= 3

\* C5: after two consecutive wins both at level >= 3, handleSeedAndRefresh
\* does not rotate the client seed for the second one.
C5_NoRotationOnSecondHighWin ==
    [][WalkStep("hsr", "sleep") /\ lastHighWin
         /\ cycleResult.outcome = "win" /\ cycleResult.level >= 3
       => ~hsr'.seedAttempted]_vars

\* C6: handleSeedAndRefresh performs the streak-break rotation exactly when the
\* cycle is a win at level >= 3 and prevWinLevel, as it was before this cycle
\* is committed, is null or below 3; playOneCycle never writes prevWinLevel.
C6_StreakRotationIff ==
    [][/\ (WalkStep("hsr", "sleep")
           => (hsr'.branch = "streak"
                 <=> /\ cycleResult.outcome = "win"
                     /\ cycleResult.level >= 3
                     /\ (prevWinLevel = NULL \/ prevWinLevel < 3)))
       /\ (pc \in {"play", "deposit", "spin", "result"} /\ SameProcess
           => prevWinLevel' = prevWinLevel)]_vars

\* the last cycle was a win at level >= 3 and the seed was rotated for it
C6_Witness ==
    /\ pc = "sleep"
    /\ lastHighWin
    /\ hsr.branch = "streak"
    /\ hsr.returned = "true"
    /\ prevWinLevel = NULL

\* C7: a won walk changes pnl by exactly +100 whatever the level it is won at,
\* and a walk lost at level 13 changes it by exactly -1,638,300.
C7_WalkProfit ==
    [][WalkStep("result", "hsr")
       => /\ cycleResult'.outcome \in {"win", "loss"}
          /\ (cycleResult'.outcome = "win" => pnl' = pnl + 100)
          /\ (cycleResult'.outcome = "loss" => level = 13 /\ pnl' = pnl - 1638300)]_vars

\* the walk has just been won at level 13
C7_Witness ==
    /\ pc = "hsr"
    /\ cycleResult = [outcome |-> "win", level |-> 13]
    /\ pnl = 100

\* C8: once the stake of level i is placed, the cumulative stake of the walk
\* is 100 * (2^(i+1) - 1).
C8_CumulativeStake ==
    pc \in {"spin", "result"} => cumulative = 100 * ((2 ^ (level + 1)) - 1)

\* the stake of level 13 is placed
C8_Witness ==
    pc = "spin" /\ level = 13 /\ cumulative = 1638300

C10_TripAlwaysCompletes ==
    [][WalkStep("hsr", "sleep") /\ BudgetTrip
       => /\ hsr'.seedAttempted
          /\ hsr'.reload
          /\ hsr'.returned = "true"
          /\ prevWinLevel' = NULL
          /\ (verificationErrorCount >= 5 => verificationErrorCount' = 0)
          /\ (verificationErrorCount < 5 => spinErrorCount' = 0)]_vars

\* C10 amended: on an exhausted budget handleSeedAndRefresh attempts a seed
\* change and forces a reload; when the reload succeeds it sets the tripped
\* counter to 0, sets prevWinLevel to null and returns true; when the reload
\* throws, handleSeedAndRefresh throws instead of returning, the counters and
\* prevWinLevel are not reset by it, and executeRouletteCycle counts one more
\* consecutive roulette error (the fifth of which makes the orchestrator call
\* resetState()).
C10_TripCompletesUnlessReloadThrows ==
    [][WalkStep("hsr", "sleep") /\ BudgetTrip
       => /\ hsr'.seedAttempted
          /\ hsr'.reload
          /\ hsr'.returned \in {"true", "throw"}
          /\ (hsr'.returned = "true"
              => /\ prevWinLevel' = NULL
                 /\ (verificationErrorCount >= 5 => verificationErrorCount' = 0)
                 /\ (verificationErrorCount < 5 => spinErrorCount' = 0)
                 /\ consecutiveRouletteErrors' = 0)
          /\ (hsr'.returned = "throw" /\ consecutiveRouletteErrors + 1 < 5
              => /\ prevWinLevel' = prevWinLevel
                 /\ verificationErrorCount' = verificationErrorCount
                 /\ spinErrorCount' = spinErrorCount
                 /\ consecutiveRouletteErrors' = consecutiveRouletteErrors + 1)
          /\ (hsr'.returned = "throw" /\ consecutiveRouletteErrors + 1 >= 5
              => /\ prevWinLevel' = NULL
                 /\ verificationErrorCount' = 0
                 /\ spinErrorCount' = 0
                 /\ consecutiveRouletteErrors' = 0)]_vars

\* the spin budget tripped and the corrective sequence went through
C10_Witness ==
    /\ pc = "sleep"
    /\ hsr.branch = "spin"
    /\ hsr.returned = "true"
    /\ spinErrorCount = 0
    /\ prevWinLevel = NULL

\* C11: from NEEDS_EMAIL_VERIFICATION_REGISTRATION the verify request is sent
\* at most 3 times, one request per visit of the state (so that the retry
\* wait of AWAITING_EMAIL_LINK lies between two requests); a failed proof
\* search after the third request leads to ERROR, and AWAITING_EMAIL_LINK
\* otherwise leads to NEEDS_BONUS_CLAIM or back to the request.
C11_BoundedVerifyRequests ==
    [][SameProcess =>
          /\ verifyRequests' <= 3
          /\ verifyRequests' - verifyRequests <= 1
          /\ (TickOf("AWAITING_EMAIL_LINK")
              => /\ currentState' \in {"NEEDS_BONUS_CLAIM", "ERROR",
                                       "NEEDS_EMAIL_VERIFICATION_REGISTRATION"}
                 /\ (currentState' = "ERROR" <=>
                       appState'.verificationAttempts >= 3))]_vars

\* C12 as stated: in CHECKING_EMAIL_VERIFICATION_STATUS an ambiguous status
\* (neither the success banner nor the verify link found, or the check
\* throws) leads to NEEDS_EMAIL_VERIFICATION_REGISTRATION, and verification is
\* skipped only when the success banner was found.
C12_AmbiguousMeansVerify ==
    [][TickOf("CHECKING_EMAIL_VERIFICATION_STATUS")
       => /\ (emailCheck' \in {"neither", "throw"}
              => currentState' = "NEEDS_EMAIL_VERIFICATION_REGISTRATION")
          /\ (currentState' # "NEEDS_EMAIL_VERIFICATION_REGISTRATION"
              => emailCheck' = "banner")]_vars

\* C12 amended: the next state is NEEDS_EMAIL_VERIFICATION_REGISTRATION when
\* the verify link is found or needsEmailVerification throws; when the
\* success banner is found, and also when neither the banner nor the link is
\* found, verification is skipped (NEEDS_BONUS_CLAIM or CLAIMING_HOURLY_FAUCET).
C12_VerifyOnLinkOrThrow ==
    [][TickOf("CHECKING_EMAIL_VERIFICATION_STATUS")
       => /\ emailCheck' \in {"link", "throw", "banner", "neither"}
          /\ (emailCheck' \in {"link", "throw"}
              <=> currentState' = "NEEDS_EMAIL_VERIFICATION_REGISTRATION")
          /\ (emailCheck' \in {"banner", "neither"}
              <=> currentState' \in {"NEEDS_BONUS_CLAIM", "CLAIMING_HOURLY_FAUCET"})]_vars

\* neither the banner nor the link was found and verification was skipped
C12_Witness ==
    /\ pc = "sleep"
    /\ emailCheck = "neither"
    /\ currentState = "CLAIMING_HOURLY_FAUCET"

\* C13: a SIGINT received outside STOPPING / STOPPED sets currentState to
\* STOPPING, and from then on the tick in progress never sets it back:
\* the only state that follows STOPPING is STOPPED.
C13_StoppingIsSticky ==
    [][/\ (process'.signals > process.signals /\ currentState \notin {"STOPPING", "STOPPED"}
             => currentState' = "STOPPING")
       /\ (currentState = "STOPPING" /\ SameProcess
             => currentState' \in {"STOPPING", "STOPPED"})]_vars

\* C14: whenever the process exits after the operator sent SIGINT (once or
\* several times, in any state), closeBrowser has completed: no browser is
\* left open.
C14_ExitAfterSigintClosesBrowser ==
    pc = "exited" /\ process.signals > 0 => ~page

\* C15: the process exits with status 0 only after a clean stop (the loop
\* reached STOPPED with the browser closed, and not through ERROR), and with
\* a non-zero status whenever the machine stopped because it entered ERROR.
C15_ExitStatus ==
    pc = "exited" =>
        /\ (process.exitCode = 0 => currentState = "STOPPED" /\ ~page /\ ~process.error)
        /\ (process.error => process.exitCode # 0)

\* C16: once the machine is in ERROR the states that follow are exactly
\* STOPPING and then STOPPED, the browser is closed by the STOPPING tick
\* before STOPPED is set, nothing runs after STOPPED, and the loop ends
\* (or the process is ended by the operator first).
C16_ErrorThenStoppingThenStopped ==
    /\ [][SameProcess =>
            /\ (currentState = "ERROR" => currentState' \in {"ERROR", "STOPPING"})
            /\ (TickOf("ERROR") => currentState' = "STOPPING")
            /\ (process.error /\ currentState = "STOPPING"
                  => currentState' \in {"STOPPING", "STOPPED"})
            /\ (process.error /\ currentState' = "STOPPED" => ~page')
            /\ (currentState = "STOPPED"
                  => currentState' = "STOPPED" /\ pc' \in {"done", "exited"})]_vars
    /\ (currentState = "ERROR" ~> pc \in {"done", "exited"})

C16_Witness ==
    process.error /\ currentState = "STOPPED" /\ pc = "done" /\ ~page /\ stateFile.exists

\* C17: when a tick changes a checkpoint field (isInitialSetupComplete,
\* lastFaucetClaimTime, verificationAttempts, rouletteCycles, totalPnL,
\* withdrawalThresholdBalance, systemPausedForWithdrawal), appState.json
\* holds the new values when the tick ends, before the next one starts.
C17_CheckpointWrittenEachTick ==
    [][/\ SameProcess
       /\ pc' = "sleep"
       /\ <<appState, withdrawalThresholdBalance, systemPausedForWithdrawal>>'
            # <<appState, withdrawalThresholdBalance, systemPausedForWithdrawal>>
       => stateFile' = saveStateToFile(appState', withdrawalThresholdBalance',
                                       systemPausedForWithdrawal')]_vars

C19_UnreadResultIsError ==
    [][pc = "result" /\ SameProcess /\ getResultRead' = "null"
         => /\ pc' = "hsr"
            /\ cycleResult'.outcome = "error"
            /\ level' <= level
            /\ pnl' = pnl]_vars

\* C20: a PLAYING_ROULETTE tick moves to PAUSED_FOR_FAUCET exactly when
\* lastFaucetClaimTime is null or at least 62 minutes have passed since it
\* (the gate isTimeForFaucetClaim); with no claim recorded it does so at once.
C20_FaucetGate ==
    [][TickOf("PLAYING_ROULETTE")
         => /\ (currentState' = "PAUSED_FOR_FAUCET"
                  <=> \/ appState.lastFaucetClaimTime = NULL
                      \/ now - appState.lastFaucetClaimTime >= 62)
            /\ (currentState' = "PAUSED_FOR_FAUCET"
                  => pc' = "sleep" /\ cycleCount' = cycleCount /\ UNCHANGED appState)]_vars

C20_Witness ==
    /\ currentState = "PAUSED_FOR_FAUCET" /\ pc = "sleep"
    /\ appState.lastFaucetClaimTime # NULL
    /\ now - appState.lastFaucetClaimTime = 62

\* C21: while paused for the manual withdrawal, a tick that detects no
\* withdrawal and finds the faucet gate open attempts the hourly claim, and
\* the machine stays in PAUSED_FOR_MANUAL_WITHDRAWAL.
C21_ClaimsContinueWhilePaused ==
    [][TickOf("PAUSED_FOR_MANUAL_WITHDRAWAL") /\ currentState' # "RESUMING_AFTER_WITHDRAWAL"
         => /\ currentState' = "PAUSED_FOR_MANUAL_WITHDRAWAL"
            /\ cycleCount' = cycleCount
            /\ (appState.lastFaucetClaimTime = NULL \/ now - appState.lastFaucetClaimTime >= 62
                  => hourlyClaimAttempts' = 1)
            /\ (appState'.lastFaucetClaimTime # appState.lastFaucetClaimTime
                  => hourlyClaimAttempts' = 1 /\ appState'.lastFaucetClaimTime = now)]_vars

C21_Witness ==
    /\ pc = "sleep" /\ currentState = "PAUSED_FOR_MANUAL_WITHDRAWAL"
    /\ systemPausedForWithdrawal
    /\ hourlyClaimAttempts = 1
    /\ appState.lastFaucetClaimTime = now
    /\ now > TimeStep

\* C22: a detected manual withdrawal clears systemPausedForWithdrawal and
\* withdrawalThresholdBalance and leads to RESUMING_AFTER_WITHDRAWAL, the
\* only way out of the pause; the RESUMING_AFTER_WITHDRAWAL tick re-enters
\* PLAYING_ROULETTE with the pnl counter at 0.
C22_ResumeAfterWithdrawal ==
    [][SameProcess =>
         /\ (TickOf("PAUSED_FOR_MANUAL_WITHDRAWAL")
               /\ systemPausedForWithdrawal /\ withdrawalThresholdBalance # NULL
               /\ currentBalance' # NULL
               /\ withdrawalThresholdBalance - currentBalance' >= 10000000
               => /\ ~systemPausedForWithdrawal'
                  /\ withdrawalThresholdBalance' = NULL
                  /\ currentState' = "RESUMING_AFTER_WITHDRAWAL")
         /\ (currentState = "PAUSED_FOR_MANUAL_WITHDRAWAL"
               => currentState' \in {"PAUSED_FOR_MANUAL_WITHDRAWAL", "RESUMING_AFTER_WITHDRAWAL"})
         /\ (currentState' = "RESUMING_AFTER_WITHDRAWAL"
               => ~systemPausedForWithdrawal' /\ withdrawalThresholdBalance' = NULL)
         /\ (TickOf("RESUMING_AFTER_WITHDRAWAL")
               => /\ currentState' = "PLAYING_ROULETTE"
                  /\ pnl' = 0
                  /\ ~systemPausedForWithdrawal'
                  /\ withdrawalThresholdBalance' = NULL)]_vars

C22_Witness ==
    /\ pc = "sleep" /\ currentState = "RESUMING_AFTER_WITHDRAWAL"
    /\ pnl # 0
    /\ currentBalance = 6638300

\* C23: an exception that escapes a case is caught at the end of the tick,
\* logged with the state whose case was running, recorded in
\* lastErrorMessage, and the tick ends in ERROR and in no other state.
C23_UncaughtGoesToError ==
    [][(pc = "tick" /\ uncaughtLog' # "none" /\ SameProcess)
         => /\ uncaughtLog' = caseLabel
            /\ lastErrorMessage' # ""
            /\ currentState' = "ERROR"]_vars

\* the state a notifying case sets when its notification succeeds
StateAfterNotifying(label, uncaught) ==
    IF uncaught THEN "ERROR"
    ELSE CASE label = "NEEDS_CONFIG" -> "LOADING_STATE"
           [] label = "WITHDRAWAL_THRESHOLD_REACHED" -> "PAUSED_FOR_MANUAL_WITHDRAWAL"
           [] label = "PAUSED_FOR_MANUAL_WITHDRAWAL" -> "RESUMING_AFTER_WITHDRAWAL"
           [] label = "RESUMING_AFTER_WITHDRAWAL" -> "PLAYING_ROULETTE"
           [] label = "ERROR" -> "STOPPING"
           [] label = "STOPPING" -> "STOPPED"
           [] OTHER -> "none"

\* C24: sendWithRetry calls sendTelegramMessage at most 3 times, stops at the
\* first success, returns true exactly when a call succeeded and never throws;
\* notifySystemEvent and notifyMoneyEvent never throw; the tick that sent the
\* notification ends in the same state whether the notification failed or not.
C24_NotificationsNeverThrow ==
    /\ [](/\ telegram.calls <= MAX_TELEGRAM_RETRIES
          /\ telegram.value \in {"none", "true", "false"}
          /\ telegram.built
               => /\ (telegram.value = "true") <=> (telegram.first # 0)
                  /\ telegram.calls = (IF telegram.first # 0 THEN telegram.first
                                       ELSE MAX_TELEGRAM_RETRIES)
          /\ (telegram.value # "none" /\ ~telegram.built)
               => (telegram.value = "false" /\ telegram.calls = 0))
    /\ [][(pc = "tick" /\ telegram'.value # "none" /\ SameProcess)
            => currentState' = StateAfterNotifying(caseLabel, uncaughtLog' # "none")]_vars

\* the CRITICAL_ERROR notification fails after three calls and the ERROR case
\* still sets STOPPING
C24_Witness ==
    /\ pc = "sleep" /\ currentState = "STOPPING"
    /\ telegram = [built |-> TRUE, first |-> 0, value |-> "false", calls |-> 3]

\* the states of a fresh run that registers and verifies at the first attempt
ScenarioA ==
    <<"INITIALIZING", "NEEDS_CONFIG", "LOADING_STATE", "LAUNCHING_BROWSER", "CHECKING_SESSION",
      "NEEDS_LOGIN", "NEEDS_SIGNUP", "SAVING_SETUP_STATE",
      "NEEDS_EMAIL_VERIFICATION_REGISTRATION", "AWAITING_EMAIL_LINK", "NEEDS_BONUS_CLAIM",
      "CLAIMING_HOURLY_FAUCET">>

\* C25: a run that starts without appState.json, is sent to the login, then
\* to the registration, and finds the proof of its first verification request
\* enters PLAYING_ROULETTE through NEEDS_SIGNUP, SAVING_SETUP_STATE,
\* NEEDS_EMAIL_VERIFICATION_REGISTRATION, AWAITING_EMAIL_LINK,
\* NEEDS_BONUS_CLAIM and CLAIMING_HOURLY_FAUCET, never through ERROR, and
\* with rouletteCycles still 0.
C25_FreshRunReachesRoulette ==
    (/\ boot = 0 /\ pc = "sleep" /\ currentState = "PLAYING_ROULETTE"
     /\ \E k \in DOMAIN stateLog : stateLog[k] = "NEEDS_SIGNUP"
     /\ Cardinality({k \in DOMAIN stateLog : stateLog[k] = "AWAITING_EMAIL_LINK"}) <= 1)
      => /\ stateLog = ScenarioA
         /\ appState.rouletteCycles = 0
         /\ cycleCount = 0
         /\ appState.isInitialSetupComplete

C25_Witness ==
    /\ boot = 0 /\ pc = "sleep" /\ currentState = "PLAYING_ROULETTE"
    /\ stateLog = ScenarioA
    /\ appState.rouletteCycles = 0
    /\ stateFile.exists

\* C26: verificationAttempts stays within 0..MAX_VERIFICATION_ATTEMPTS; it is
\* 0 after a verification that succeeded and after a verification need was
\* detected; outside the loading of appState.json it grows by one at a time,
\* and in a tick of NEEDS_EMAIL_VERIFICATION_REGISTRATION by exactly the
\* number of verify requests that tick issued.
C26_VerificationAttempts ==
    /\ [](appState.verificationAttempts \in 0..MAX_VERIFICATION_ATTEMPTS)
    /\ [][SameProcess
            => /\ (TickOf("AWAITING_EMAIL_LINK") /\ currentState' = "NEEDS_BONUS_CLAIM"
                     => appState'.verificationAttempts = 0)
               /\ (TickOf("CHECKING_EMAIL_VERIFICATION_STATUS") /\ emailCheck' = "link"
                     => appState'.verificationAttempts = 0)
               /\ (~TickOf("LOADING_STATE")
                     /\ appState'.verificationAttempts > appState.verificationAttempts
                     => appState'.verificationAttempts = appState.verificationAttempts + 1)
               /\ (TickOf("NEEDS_EMAIL_VERIFICATION_REGISTRATION")
                     => appState'.verificationAttempts - appState.verificationAttempts
                          = verifyRequests' - verifyRequests)]_vars

C28_NoClaimBeforeNextInterval ==
    [][(TickOf("PLAYING_ROULETTE") /\ claimFailedAt # NULL
        /\ now - claimFailedAt < FAUCET_INTERVAL_MS)
         => currentState' # "PAUSED_FOR_FAUCET"]_vars

\* executeRouletteCycle counts the cycle as an error: handleSeedAndRefresh
\* threw, or the cycle ended in 'error' and no refresh was made, or the
\* navigation to the roulette failed
CycleFailed ==
    \/ /\ pc = "hsr"
       /\ \/ hsr'.returned = "throw"
          \/ hsr'.returned = "false" /\ cycleResult.outcome = "error"
    \/ /\ pc = "tick" /\ caseLabel = "PLAYING_ROULETTE"
       /\ pc' = "sleep" /\ currentState' = "PLAYING_ROULETTE"

\* C29: the failed cycle that brings consecutiveRouletteErrors to
\* MAX_ROULETTE_ERRORS ends the tick with the RoulettePlayer state reset
\* (verificationErrorCount = 0, spinErrorCount = 0, prevWinLevel = null),
\* consecutiveRouletteErrors = 0, the cool-down, and PLAYING_ROULETTE; an
\* earlier failure only adds one to consecutiveRouletteErrors; no step of a
\* PLAYING_ROULETTE tick sets ERROR.
C29_ErrorLimitCoolsDown ==
    [][SameProcess
         => /\ (CycleFailed /\ consecutiveRouletteErrors = MAX_ROULETTE_ERRORS - 1
                  => /\ coolDown'
                     /\ verificationErrorCount' = 0 /\ spinErrorCount' = 0
                     /\ prevWinLevel' = NULL
                     /\ consecutiveRouletteErrors' = 0
                     /\ currentState' = "PLAYING_ROULETTE" /\ pc' = "sleep")
            /\ (CycleFailed /\ consecutiveRouletteErrors < MAX_ROULETTE_ERRORS - 1
                  => /\ ~coolDown'
                     /\ consecutiveRouletteErrors' = consecutiveRouletteErrors + 1
                     /\ currentState' = "PLAYING_ROULETTE")
            /\ (coolDown' /\ ~coolDown => CycleFailed)
            /\ (caseLabel = "PLAYING_ROULETTE" => currentState' # "ERROR")]_vars

\* five cycles were played, the fifth failure in a row has been answered by
\* the reset and the cool-down
C29_Witness ==
    /\ coolDown /\ pc = "sleep" /\ currentState = "PLAYING_ROULETTE"
    /\ cycleCount = MAX_ROULETTE_ERRORS
    /\ consecutiveRouletteErrors = 0
    /\ verificationErrorCount = 0 /\ spinErrorCount = 0 /\ prevWinLevel = NULL

\* C30: whenever playOneCycle spins at level i, i is in 0..13 and the amount
\* verified on the table is exactly 100 * 2^i.
C30_SpinWithExactStake ==
    pc = "spin" => /\ level \in 0..13
                   /\ tableAmount = 100 * (2 ^ level)

\* ---- C31 ----

\* the walk of playOneCycle is in progress
WalkInProgress == pc \in {"deposit", "spin", "result"}

\* C31 as stated: the level stays within 0..13, changes by +1 after a lost
\* round or to 0 at a win or a loss at level 13, and cumulative is reset only
\* then.
C31_LevelResetOnlyAtWinOrLoss ==
    [][/\ level' \in 0..LAST_LEVEL
       /\ (level' # level)
            => \/ level' = level + 1 /\ pc = "result" /\ pc' = "deposit"
               \/ level' = 0 /\ cycleResult'.outcome \in {"win", "loss"}
       /\ (cumulative' < cumulative) => cycleResult'.outcome \in {"win", "loss"}]_vars

\* C31 (amended): within playOneCycle the level starts at 0, increases by
\* exactly 1 after each losing round, never exceeds 13, and returns to 0 only
\* when the walk ends: a win, a loss at level 13, or a deposit or spin that
\* failed; cumulative is 0 at the start of each walk and while the walk is in
\* progress it holds the stakes of all levels spun so far.
C31_LevelWalk ==
    /\ [](/\ level \in 0..LAST_LEVEL
          /\ pc = "play" => (level = 0 /\ cumulative = 0)
          /\ pc = "deposit" => cumulative = 100 * ((2 ^ level) - 1)
          /\ pc \in {"spin", "result"} => cumulative = 100 * ((2 ^ (level + 1)) - 1)
          /\ ~WalkInProgress => (level = 0 /\ cumulative = 0))
    /\ [][/\ (level' # level)
               => \/ level' = level + 1 /\ pc = "result" /\ pc' = "deposit"
                  \/ (level' = 0 /\ WalkInProgress /\ pc' = "hsr" /\
                      cycleResult'.outcome \in {"win", "loss", "error"})
          /\ (cumulative' < cumulative)
               => (WalkInProgress /\ pc' = "hsr" /\
                   cycleResult'.outcome \in {"win", "loss", "error"})
          /\ (cycleResult'.outcome = "loss" /\ cycleResult.outcome # "loss")
               => (pc = "result" /\ level = LAST_LEVEL)]_vars

\* the walk stands at the deposit of level 13 with the stakes of levels 0..12
C31_Witness ==
    /\ pc = "deposit" /\ level = LAST_LEVEL
    /\ cumulative = 100 * ((2 ^ LAST_LEVEL) - 1)

\* ---- C32 ----

\* a budget-trip correction in which the seed change or the forced reload failed
FailedCorrection ==
    /\ WalkStep("hsr", "sleep") /\ BudgetTrip
    /\ (~hsr'.seedChanged \/ hsr'.returned # "true")

\* one ordinary failure of the cycle: the consecutive roulette errors grow by
\* one and the fifth of them starts the cool-down
OrdinaryFailure ==
    IF consecutiveRouletteErrors + 1 < MAX_ROULETTE_ERRORS
    THEN consecutiveRouletteErrors' = consecutiveRouletteErrors + 1 /\ ~coolDown'
    ELSE consecutiveRouletteErrors' = 0 /\ coolDown'

\* C32 as stated: a failure inside a budget-trip correction (the seed change
\* fails, or the forced refresh fails) starts no further corrective action
\* and is counted as one ordinary failure of the cycle.
C32_CorrectionFailureIsOrdinaryFailure ==
    [][FailedCorrection
       => /\ hsr'.branch \in {"verification", "spin"}
          /\ currentState' = "PLAYING_ROULETTE"
          /\ OrdinaryFailure]_vars

\* C32 (amended): a seed change that fails inside a budget-trip correction is
\* only logged and the forced refresh is done anyway; when the refresh goes
\* through the correction is complete and the cycle counts as a success
\* (consecutiveRouletteErrors = 0, tripped counter 0); a forced refresh that
\* fails throws out of handleSeedAndRefresh, starts no further corrective
\* action and is counted as one ordinary failure of the cycle.
C32_FailedReloadIsOneFailure ==
    [][FailedCorrection
       => /\ hsr'.branch \in {"verification", "spin"}
          /\ hsr'.seedAttempted /\ hsr'.reload
          /\ currentState' = "PLAYING_ROULETTE"
          /\ hsr'.returned \in {"true", "throw"}
          /\ (hsr'.returned = "true")
               => (/\ consecutiveRouletteErrors' = 0 /\ ~coolDown'
                   /\ prevWinLevel' = NULL
                   /\ (hsr'.branch = "verification" => verificationErrorCount' = 0)
                   /\ (hsr'.branch = "spin" => spinErrorCount' = 0))
          /\ (hsr'.returned = "throw") => OrdinaryFailure]_vars

\* the spin budget tripped, the seed change failed, the reload went through:
\* the cycle counts as a success
C32_Witness ==
    /\ pc = "sleep"
    /\ hsr.branch = "spin" /\ hsr.seedAttempted /\ ~hsr.seedChanged
    /\ hsr.returned = "true"
    /\ consecutiveRouletteErrors = 0 /\ ~coolDown

\* ---- C33 ----

\* C33: from PLAYING_ROULETTE a tick chooses only PLAYING_ROULETTE,
\* PAUSED_FOR_FAUCET or WITHDRAWAL_THRESHOLD_REACHED; the withdrawal path is
\* WITHDRAWAL_THRESHOLD_REACHED -> PAUSED_FOR_MANUAL_WITHDRAWAL -> (only in a
\* tick whose detectManualWithdrawal reports a withdrawal)
\* RESUMING_AFTER_WITHDRAWAL -> PLAYING_ROULETTE.
C33_RouletteAndWithdrawalPath ==
    [][SameProcess
       => /\ (currentState = "PLAYING_ROULETTE")
               => currentState' \in {"PLAYING_ROULETTE", "PAUSED_FOR_FAUCET",
                                     "WITHDRAWAL_THRESHOLD_REACHED"}
          /\ TickOf("WITHDRAWAL_THRESHOLD_REACHED")
               => currentState' = "PAUSED_FOR_MANUAL_WITHDRAWAL"
          /\ TickOf("PAUSED_FOR_MANUAL_WITHDRAWAL")
               => /\ currentState' \in {"PAUSED_FOR_MANUAL_WITHDRAWAL",
                                        "RESUMING_AFTER_WITHDRAWAL"}
                  /\ (currentState' = "RESUMING_AFTER_WITHDRAWAL"
                       <=> (/\ systemPausedForWithdrawal
                            /\ withdrawalThresholdBalance # NULL
                            /\ WithdrawalDetected(withdrawalThresholdBalance, currentBalance')))
          /\ TickOf("RESUMING_AFTER_WITHDRAWAL") => currentState' = "PLAYING_ROULETTE"
          /\ (currentState' = "WITHDRAWAL_THRESHOLD_REACHED" /\ currentState # currentState')
               => currentState = "PLAYING_ROULETTE"
          /\ (currentState' = "RESUMING_AFTER_WITHDRAWAL" /\ currentState # currentState')
               => currentState = "PAUSED_FOR_MANUAL_WITHDRAWAL"]_vars

\* the play has been resumed after a detected withdrawal
C33_Witness ==
    /\ pc = "sleep" /\ currentState = "PLAYING_ROULETTE"
    /\ ~systemPausedForWithdrawal /\ withdrawalThresholdBalance = NULL
    /\ telegram.value # "none"

\* ---- C34 ----

\* C34: a failed balance read while paused for the manual withdrawal
\* (checkBalance returns 0 although the site holds a balance) never makes
\* detectManualWithdrawal report a withdrawal: the tick does not set
\* RESUMING_AFTER_WITHDRAWAL and the withdrawal pause stays armed.
C34_FailedReadNeverResumes ==
    [][(TickOf("PAUSED_FOR_MANUAL_WITHDRAWAL") /\ currentBalance' = 0 /\ balance # 0)
       => /\ currentState' # "RESUMING_AFTER_WITHDRAWAL"
          /\ systemPausedForWithdrawal' = systemPausedForWithdrawal
          /\ withdrawalThresholdBalance' = withdrawalThresholdBalance]_vars

\* ---- C35 ----

\* the stakes of the walk in progress that were placed and spun: all of
\* cumulative, less the stake of the level whose spin has not been made yet
SpunStakes == IF pc = "spin" THEN cumulative - BASE_PROGRESSION[level] ELSE cumulative

\* C35: pnl equals the total paid out on won rounds minus the total of all
\* stakes placed and spun since the last resetPnL: every walk that ends, a
\* walk aborted by a deposit or spin error included, changes pnl by the payout
\* of its won round (twice the stake) minus the stakes it has spun, and no
\* other step of the engine changes pnl.
C35_PnLCountsEverySpunStake ==
    [][SameProcess
       => /\ (WalkInProgress /\ pc' = "hsr")
               => pnl' - pnl = (IF cycleResult'.outcome = "win"
                                THEN 2 * BASE_PROGRESSION[level] ELSE 0) - SpunStakes
          /\ (pc \in {"play", "deposit", "spin", "result", "hsr"} /\ pc' # "hsr")
               => pnl' = pnl]_vars

\* ---- C36 ----

\* the first roulette cycle of a restarted process ends, and the total the
\* process loaded from the state file is still the total in the file
FirstCycleAfterRestartEnds ==
    /\ boot >= 1 /\ cycleCount = 1 /\ stateFile.exists
    /\ appState.totalPnL = stateFile.totalPnL
    /\ pc = "hsr" /\ pc' # "hsr" /\ SameProcess

\* C36: across a restart the persisted totalPnL is continued: the totalPnL
\* saved after the first roulette cycle of the restarted process is the
\* totalPnL saved before plus the profit or loss of that cycle, which is the
\* whole of the engine's pnl since the engine started at 0.
C36_TotalPnLContinuedAcrossRestart ==
    [][FirstCycleAfterRestartEnds
       => stateFile'.totalPnL = stateFile.totalPnL + pnl]_vars

\* ---- C37 ----

ClaimTimeUpdated ==
    /\ SameProcess /\ caseLabel # "LOADING_STATE"
    /\ appState'.lastFaucetClaimTime # appState.lastFaucetClaimTime

\* the tick that runs made a claim whose result was read from the page
ClaimResultRead == pc = "tick" /\ SameProcess /\ claimSuccessful' \in {"success", "error", "nomessage"}

MaxBonusSpins == 3
\* passes through the claim loop that are followed
MaxBonusIterations == 5

\* getAvailableBonusSpins: the number shown by the counter, 0 when there is
\* no page, no counter, or no number in it
getAvailableBonusSpins == IF page THEN 0..MaxBonusSpins ELSE {0}

\* claimBonusFaucet up to the loop: false without a page or when the tab
\* cannot be selected or a page operation throws, true when no spin is shown
ClaimBonusFaucetBegin ==
    /\ pc = "bonusBegin"
    /\ UNCHANGED <<currentState, orchVars, page, playerVars, walkVars, envVars, obsVars,
                   process, getResultRead, hourlyClaimAttempts, caseLabel, lastErrorMessage,
                   uncaughtLog, details, telegram, stateLog, stepFault, claimFailedAt,
                   coolDown,
                   tableAmount, claimSuccessful>>
    /\ IF ~page
       THEN /\ bonusClaim' = [NoBonusClaim EXCEPT !.returned = "false"]
            /\ pc' = "bonusDone"
       ELSE \E read \in getAvailableBonusSpins, tabSelected \in BOOLEAN :
              IF read <= 0
              THEN /\ bonusClaim' = [NoBonusClaim EXCEPT !.returned = "true"]
                   /\ pc' = "bonusDone"
              ELSE IF ~tabSelected
              THEN /\ bonusClaim' = [NoBonusClaim EXCEPT !.initialSpinsAvailable = read,
                                                         !.returned = "false"]
                   /\ pc' = "bonusDone"
              ELSE /\ bonusClaim' = [NoBonusClaim EXCEPT !.initialSpinsAvailable = read,
                                                         !.remainingSpins = read]
                   /\ pc' = "bonusLoop"

\* one pass of "while (remainingSpins > 0)": claimSingleBonusSpin, then
\* remainingSpins is read again from the counter of the page; after a failed
\* claim the page is reloaded first, and a reload that throws ends the call
ClaimBonusSpin ==
    /\ pc = "bonusLoop"
    /\ bonusClaim.remainingSpins > 0
    /\ bonusClaim.iterations < MaxBonusIterations
    /\ UNCHANGED <<currentState, orchVars, page, playerVars, walkVars, envVars, obsVars,
                   process, getResultRead, hourlyClaimAttempts, caseLabel, lastErrorMessage,
                   uncaughtLog, details, telegram, stateLog, stepFault, claimFailedAt,
                   coolDown,
                   tableAmount, claimSuccessful>>
    /\ \E claimSuccess \in BOOLEAN, reloadThrows \in BOOLEAN, read \in getAvailableBonusSpins :
         /\ (claimSuccess => ~reloadThrows)
         /\ IF reloadThrows
            THEN /\ bonusClaim' = [bonusClaim EXCEPT !.iterations = @ + 1, !.returned = "false"]
                 /\ pc' = "bonusDone"
            ELSE /\ bonusClaim' = [bonusClaim EXCEPT
                                     !.iterations = @ + 1,
                                     !.totalClaimed = IF claimSuccess THEN @ + 1 ELSE @,
                                     !.remainingSpins = read]
                 /\ pc' = "bonusLoop"

\* the loop is left with remainingSpins at 0: back to the hourly tab, true
ClaimBonusFaucetEnd ==
    /\ pc = "bonusLoop"
    /\ bonusClaim.remainingSpins <= 0
    /\ UNCHANGED <<currentState, orchVars, page, playerVars, walkVars, envVars, obsVars,
                   process, getResultRead, hourlyClaimAttempts, caseLabel, lastErrorMessage,
                   uncaughtLog, details, telegram, stateLog, stepFault, claimFailedAt,
                   coolDown,
                   tableAmount, claimSuccessful>>
    /\ bonusClaim' = [bonusClaim EXCEPT !.returned = "true"]
    /\ pc' = "bonusDone"

\* claimBonusFaucet is called in NEEDS_BONUS_CLAIM, with or without a page
InitBonus ==
    /\ currentState = "NEEDS_BONUS_CLAIM"
    /\ pc = "bonusBegin"
    /\ now = TimeStep
    /\ appState = DefaultAppState
    /\ withdrawalThresholdBalance = NULL
    /\ systemPausedForWithdrawal = FALSE
    /\ consecutiveRouletteErrors = 0
    /\ stateFile = NoFile
    /\ page \in BOOLEAN
    /\ verificationErrorCount = 0
    /\ spinErrorCount = 0
    /\ prevWinLevel = NULL
    /\ pnl = 0
    /\ cycleCount = 0
    /\ level = 0
    /\ cumulative = 0
    /\ targetChoice = "none"
    /\ cycleResult = NoResult
    /\ balance = 0
    /\ boot = 0
    /\ maxCycles = MaxCyclesMachine
    /\ maxLosses = MaxLossesMachine
    /\ currentBalance = NULL
    /\ signInEnd = "none"
    /\ hsr = NoHsr
    /\ lastHighWin = FALSE
    /\ verifyRequests = 0
    /\ emailCheck = "none"
    /\ process = NoProcess
    /\ getResultRead = "none"
    /\ hourlyClaimAttempts = 0
    /\ caseLabel = "NEEDS_BONUS_CLAIM"
    /\ lastErrorMessage = ""
    /\ uncaughtLog = "none"
    /\ details = NoDetails
    /\ telegram = NoTelegram
    /\ stateLog = <<>>
    /\ stepFault = "none"
    /\ claimFailedAt = NULL
    /\ coolDown = FALSE
    /\ tableAmount = NULL
    /\ claimSuccessful = "none"
    /\ bonusClaim = NoBonusClaim

NextBonus ==
    \/ ClaimBonusFaucetBegin
    \/ ClaimBonusSpin
    \/ ClaimBonusFaucetEnd

SpecBonus == InitBonus /\ [][NextBonus]_vars

\* C39: claimBonusFaucet, started with n available bonus spins, makes at
\* most n passes through its claim loop, whatever the spin counter shows
\* after each claim.
C39_AtMostNIterations ==
    bonusClaim.iterations <= bonusClaim.initialSpinsAvailable

\* ---- C40 ----

\* C40: the UNHANDLED_ERROR notification sent from the catch at the loop
\* boundary of runStateMachine carries, in its state field, the state in
\* which the exception occurred (the case that was running).
C40_NotificationCarriesFailingState ==
    [][(pc = "tick" /\ SameProcess /\ details' # NoDetails)
         => details'.state = caseLabel]_vars

====
